---- MODULE Spec2Model ----
(***************************************************************************)
(* State-machine model of the capture pipeline of the LinkedIn assistant   *)
(* content script: the MessageTracker, the ConnectionRequestTracker, the   *)
(* comment submission listener and the LinkedInAiAssistant that owns them, *)
(* with the PerformanceManager, the capture button of a post and the wait  *)
(* for the invite modal.                                                   *)
(*                                                                         *)
(* Time is Date.now() in milliseconds.  A timer fires when the clock       *)
(* reaches its due time: Tick never moves the clock past a pending due     *)
(* time, so every callback runs at the instant it was scheduled for.       *)
(* The document shows one kind of surface per run (page): messaging        *)
(* composers, connect buttons of the network page, the invite modal of a   *)
(* profile page, feed comment boxes, feed posts ("posts", "cleanup"), the   *)
(* capture button of one post ("button"), an invite modal whose textarea   *)
(* comes late ("modalwait"), a composer whose pre-send extraction is       *)
(* recorded ("compose"), a comment box whose submit clicks are recorded    *)
(* ("comments"), a page that changes its URL ("navigation"), or the input  *)
(* of one extractor call ("extract", "sanitize").  Further pages hold one  *)
(* question each: "msginit" (initialize with its await), "single" (the     *)
(* single-phase connection tracker), "observe" (the mutation observer),    *)
(* "lookup" (post id lookup), "thread" (thread confirmation) and           *)
(* "convkey" (conversation keys).                                          *)
(*                                                                         *)
(* Modelling decisions:                                                    *)
(*  - initialize() of a tracker runs as one step, and setupTracking /      *)
(*    cleanup of the assistant call the trackers' initialize / cleanup in  *)
(*    one step; the await of initialize() is split on the page "msginit"   *)
(*    only, where the message tracker is the record mi;                    *)
(*  - the click and the form-submit listener of a send button run the same *)
(*    handler and are counted as one listener;                             *)
(*  - handleModalAppeared runs in the step that inserts the modal;         *)
(*  - conversation ids and profile urls are drawn from fixed sets; the     *)
(*    generated conversation id of getConversationId and the generated     *)
(*    post id of getPostId are modelled on the pages "convkey" and         *)
(*    "lookup" as the time and a random suffix;                            *)
(*  - mFired, cFired, cmtFired, mAttempt, cAttempt, mAccepted, cAccepted   *)
(*    and cDirect are history variables: they record what the handlers     *)
(*    did and are read by no handler;                                      *)
(*  - the user clicks and types at the instants of UserInstants only;      *)
(*    timers fire at their due times in between;                           *)
(*  - the PerformanceManager, the capture button and the modal wait are    *)
(*    one record each (pm, btn, wait); their fields named h... are         *)
(*    history fields;                                                      *)
(*  - the timers of the PerformanceManager run on the pages that show      *)
(*    posts; on the other pages its maps are empty and its cleanup pass    *)
(*    has nothing to do;                                                   *)
(*  - performance-manager.ts holds the class twice; the first one, which   *)
(*    also tracks interfaces, is the one modelled;                         *)
(*  - the messaging and the connection interface scans are the same code   *)
(*    over two selector lists and are modelled as one scan;                *)
(*  - validatePostData(extractPostData(...)) is a boolean input of the     *)
(*    capture button; extractPostData itself is modelled on its own, over  *)
(*    containers of a few media nodes;                                     *)
(*  - a string is a sequence of characters over a small alphabet in which  *)
(*    a UI phrase of the composer is one character;                        *)
(*  - two timers that are due at the same instant fire in either order.    *)
(***************************************************************************)
EXTENDS Integers, Sequences, FiniteSets, TLC

\* ---------------------------------------------------------------- bounds
MaxCaps == 2         \* settle timers pending at once per tracker
MaxInits == 3        \* setupTracking runs per run
MaxCleanups == 1     \* cleanup runs per run
MaxListeners == 2    \* listeners one element accumulates
MaxEnters == 1       \* Enter shortcuts per run
StartTime == 1000    \* Date.now() when the content script loads
MaxPosts == 1        \* feed posts in the document
MaxQueue == 6        \* length of the process queue
MaxCalls == 2        \* counted onPostVisible calls per post
MaxOver == 2         \* entries a tracked-node map holds above the cap
MaxPending == 2      \* capturePost calls in flight for one button
MaxWaits == 2        \* waitForConnectionModalReady calls per run
MaxClicks == 2       \* counted runs of the comment submit handler
MaxUrlChanges == 2   \* URL changes per run
MaxLen == 5          \* length of a sanitized string
MaxNodes == 2        \* media nodes of a post container
MaxDocPosts == 2     \* post containers of a document

\* ------------------------------------------------------ program constants
DebounceMs == 5000           \* now - lastCapture < 5000
MaxAgeMs == 600000           \* maxAge = 10 * 60 * 1000
PurgeEveryMs == 300000       \* setInterval(..., 5 * 60 * 1000)
SettleMs == 1500             \* setTimeout(..., 1500)
CommentSettleMs == 200       \* setTimeout(..., 200)
KeyboardDelayMs == 500       \* setTimeout(..., 500) of the Enter shortcut
KeyChars == 50               \* substring(0, 50)
MaxButtons == 50             \* maxButtons = 50
CleanupEveryMs == 30000      \* setInterval(..., 30000)
PmMaxAgeMs == 300000         \* maxAge = 5 * 60 * 1000 of cleanupOldPosts
ProcessThrottleMs == 500     \* throttle(..., 500) of processQueueThrottled
ScrollThrottleMs == 2000     \* throttle(scanForPosts, 2000)
ScanDebounceMs == 1000       \* debounce(scanFor..., 1000)
ResumeDelayMs == 500         \* setTimeout(() => this.scanForPosts(), 500)
BatchSize == 5               \* processQueue.splice(0, 5)
SuccessShowMs == 1500        \* setTimeout(() => setState('captured'), 1500)
ErrorResetMs == 3000         \* setTimeout(() => setState('default'), 3000)
ModalTimeoutMs == 10000      \* setTimeout(() => reject(...), 10000)
PollMs == 100                \* setTimeout(checkModal, 100)
StartupDelayMs == 2000       \* setTimeout(..., 2000) of initializeAfterReady
NavPollMs == 2000            \* setInterval(checkForNavigation, 2000)
ReinitDelayMs == 1000        \* setTimeout(initializeExtension, 1000)

\* -------------------------------------------------------- model universe
\* the instants the clock may be advanced to (besides the due times)
Instants == {StartTime + 100, StartTime + PurgeEveryMs}
DedupInstants ==
  {StartTime + 100, StartTime + DebounceMs, StartTime + 3 * PurgeEveryMs}
\* the instants at which the user clicks or types
UserInstants == {StartTime} \cup Instants \cup DedupInstants
Posts == 1..MaxPosts                     \* feed-post nodes
Ifaces == {101}                          \* a messaging interface node
\* the instants of the feed-page clock and of its user
PmUserInstants == {StartTime, StartTime + 1000}
PmInstants == PmUserInstants \cup {StartTime + CleanupEveryMs}
\* the instants of the capture button's clock and of its user
BtnInstants == {StartTime + 1000, StartTime + 2000, StartTime + 5000}
BtnUserInstants == {StartTime} \cup BtnInstants
\* the instants of the modal wait's clock and of its user
WaitUserInstants == {StartTime, StartTime + 5000}
WaitInstants == WaitUserInstants \cup {StartTime + ModalTimeoutMs + 500}
\* the instants of the navigation script's clock and of its page
NavUserInstants == {StartTime + 1000, StartTime + 3000}
NavEnd == StartTime + 6 * NavPollMs
Pages == {"messaging", "network", "profile", "feed"}
SendButtons == {"s1"}                    \* message send buttons (elements)
ConnectButtons == {"c1"}                 \* connect buttons (elements)
ModalSendButtons == {"m1"}               \* send button of the invite modal
Dash == <<0>>                            \* the "-" of the key template
ConvA == <<7>>
Convs == {ConvA}
UrlA == <<5>>
Urls == {UrlA}
LongA == [i \in 1..51 |-> IF i = 51 THEN 2 ELSE 1]
LongB == [i \in 1..51 |-> IF i = 51 THEN 3 ELSE 1]
Short == <<4>>
Texts == {<<>>, Short, LongA, LongB}
Names == {"", "Ann"}
SinkResults == {"ok", "fail"}   \* fail: success:false or a thrown error
Null == [null |-> TRUE]

Min(a, b) == IF a < b THEN a ELSE b

VARIABLES
  now, page, aInitialized,
  \* MessageTracker
  mInitialized, mTracked, mLast, mPurgeDue, mObservers, mKeydown, mKb, mEnters,
  mDoc, mListeners, mCaps, mFired, mAttempt, mAccepted,
  \* ConnectionRequestTracker
  cInitialized, cTrackedConnect, cTrackedSend, cLast, cPurgeDue, cObservers,
  cModalObserver, cDocConnect, cModal, cConnListeners, cSendListeners,
  cCaps, cFired, cDirect, cAttempt, cAccepted,
  \* comment tracking
  cmtListener, cmtCaps, cmtFired, cmtHist, cmtDoc, aCleanups

mVars == <<mInitialized, mTracked, mLast, mPurgeDue, mObservers, mKeydown, mKb, mEnters,
           mDoc, mListeners, mCaps, mFired, mAttempt, mAccepted>>
cVars == <<cInitialized, cTrackedConnect, cTrackedSend, cLast, cPurgeDue, cObservers,
           cModalObserver, cDocConnect, cModal, cConnListeners, cSendListeners,
           cCaps, cFired, cDirect, cAttempt, cAccepted>>
cmtVars == <<cmtListener, cmtCaps, cmtFired, cmtHist, cmtDoc>>
VARIABLES
  pm,      \* PerformanceManager
  btn,     \* AiCaptureButton of one post
  wait     \* waitForConnectionModalReady calls

xVars == <<pm, btn, wait>>
VARIABLES
  ex,      \* one run of an extractor: its input and what it returned
  nav      \* the module-level script of content.tsx: url poll and start-up timers
VARIABLES
  mi,      \* MessageTracker.initialize() calls and their await of the document
  sp       \* the single-phase ConnectionRequestTracker: its modal send handler

vars == <<now, page, sp, mi, ex, nav, aInitialized, mVars, cVars, cmtVars, aCleanups, xVars>>

\* ------------------------------------------------------- shared helpers
\* String.prototype.substring(0, 50)
Substring50(t) == SubSeq(t, 1, Min(Len(t), KeyChars))

\* `${id}-${text?.substring(0, 50)}`
CaptureKey(id, text) == id \o Dash \o Substring50(text)

\* the dedup check with the window closed at both ends
IsDuplicateInclusive(map, k, t) ==
  /\ k \in DOMAIN map
  /\ map[k] # 0
  /\ t - map[k] <= DebounceMs

\* lastCapture = map.get(key); lastCapture && now - lastCapture < 5000
\* (undefined and 0 are both falsy)
IsDuplicate(map, k, t) ==
  /\ k \in DOMAIN map
  /\ map[k] # 0
  /\ t - map[k] < DebounceMs

\* Map.set(key, value)
MapSet(map, k, v) == [x \in DOMAIN map \cup {k} |-> IF x = k THEN v ELSE map[x]]

\* the purge with maxAge taken in microseconds
PurgeMapWrongUnit(map, t) ==
  LET keep == {k \in DOMAIN map : ~(t - map[k] > MaxAgeMs * 1000)}
  IN [k \in keep |-> map[k]]

\* a purge that deletes every entry
PurgeMapAll(map, t) == [k \in {} |-> 0]

\* the forEach of the purge interval: delete when now - timestamp > maxAge
PurgeMap(map, t) ==
  LET keep == {k \in DOMAIN map : ~(t - map[k] > MaxAgeMs)}
  IN [k \in keep |-> map[k]]

EmptyMap == [k \in {} |-> 0]

\* sendToBackground + the success check: a failed call throws
SinkThrows(r) == r = "fail"

\* a pending settle timer with the snapshot its callback closes over;
\* gen counts the cleanup() calls made before it was scheduled
NewTimer(key, pre, t, gen, delay) ==
  [key |-> key, pre |-> pre, at |-> t, due |-> t + delay, gen |-> gen]

\* the sequence without its i-th element
RemoveAt(seq, i) == SubSeq(seq, 1, i - 1) \o SubSeq(seq, i + 1, Len(seq))

\* history: the last capture attempt that reached the dedup check, with
\* the accepted capture of the same key that preceded it (hist)
NoAttempt == [valid |-> FALSE]
AttemptRecord(accepted, hist, key, t, gen) ==
  [valid |-> TRUE, key |-> key, at |-> t, gen |-> gen, accepted |-> accepted,
   hasPrev |-> key \in DOMAIN hist,
   prevAt |-> IF key \in DOMAIN hist THEN hist[key].at ELSE 0,
   prevGen |-> IF key \in DOMAIN hist THEN hist[key].gen ELSE 0]

\* history: the outcome of the last settle timer that fired
NoFired == [valid |-> FALSE]

\* the dedup check and the scheduling shared by the send-click handlers
\* and handleMessageSent; st = [last, caps, attempt, hist]
DedupAndSchedule(st, key, pre, t, gen) ==
  IF IsDuplicate(st.last, key, t)
  THEN [st EXCEPT !.attempt = AttemptRecord(FALSE, st.hist, key, t, gen)]
  ELSE [last |-> MapSet(st.last, key, t),
        caps |-> Append(st.caps, NewTimer(key, pre, t, gen, SettleMs)),
        attempt |-> AttemptRecord(TRUE, st.hist, key, t, gen),
        hist |-> MapSet(st.hist, key, [at |-> t, gen |-> gen])]

\* -------------------------------------------------------------- strings
\* A string is the sequence of its characters; a character is its code
\* unit.  A UI phrase of the composer is one character of the alphabet.
Space == 32                  \* ' '
Bom == 65279                 \* U+FEFF: matched by \s and by the zero-width class
Zwsp == 8203                 \* U+200B: zero-width, not matched by \s
Lt == 60                     \* '<'
Gt == 62                     \* '>'
DragHere == 901              \* "Drag your file here."
SelectFile == 902            \* "Select your file"
WriteAMessage == 903         \* "Write a message..." (with the ellipsis character)
OpenEmoji == 904             \* "Open Emoji Keyboard"
Letter == Head(Short)
WhiteSpace == {Space, Bom}   \* what \s and trim() take for white space
ZeroWidth == {Zwsp, Bom}     \* of [U+200B-U+200D, U+FEFF]

\* s.replace(/\s+/g, ' '): every run of white space becomes one space
RECURSIVE CollapseWhitespace(_)
CollapseWhitespace(s) ==
  IF s = <<>> THEN <<>>
  ELSE IF Head(s) \notin WhiteSpace
  THEN <<Head(s)>> \o CollapseWhitespace(Tail(s))
  ELSE IF Len(s) > 1 /\ s[2] \in WhiteSpace
  THEN CollapseWhitespace(Tail(s))
  ELSE <<Space>> \o CollapseWhitespace(Tail(s))

\* s.replace(/[U+200B-U+200D U+FEFF]/g, '')
RemoveZeroWidth(s) == SelectSeq(s, LAMBDA c : c \notin ZeroWidth)

\* s.replace(/<[^>]*>/g, ''): from each '<' up to the next '>'
RECURSIVE RemoveTags(_)
RemoveTags(s) ==
  IF s = <<>> THEN <<>>
  ELSE IF Head(s) = Lt /\ (\E i \in 2..Len(s) : s[i] = Gt)
  THEN LET close == CHOOSE i \in 2..Len(s) :
                      s[i] = Gt /\ \A j \in 2..(i - 1) : s[j] # Gt
       IN RemoveTags(SubSeq(s, close + 1, Len(s)))
  ELSE <<Head(s)>> \o RemoveTags(Tail(s))

RECURSIVE TrimStart(_)
TrimStart(s) ==
  IF s # <<>> /\ Head(s) \in WhiteSpace THEN TrimStart(Tail(s)) ELSE s

RECURSIVE TrimEnd(_)
TrimEnd(s) ==
  IF s # <<>> /\ s[Len(s)] \in WhiteSpace THEN TrimEnd(SubSeq(s, 1, Len(s) - 1)) ELSE s

\* String.prototype.trim()
Trim(s) == TrimEnd(TrimStart(s))

\* sanitizeText of post-extractor.ts
sanitizeText(text) == Trim(RemoveZeroWidth(CollapseWhitespace(text)))

\* sanitizeText of connection-request-extractor.ts
sanitizeConnectionText(text) == Trim(RemoveZeroWidth(CollapseWhitespace(text)))

\* uiPlaceholderPatterns of sanitizeMessageText over the alphabet:
\* /^Drag your file here\.\s*Select your file/, /^Write a message...$/ and
\* the patterns that match anywhere (/Open Emoji Keyboard/ stands for them);
\* the alphabet holds no "Or drag & drop next time", so combinedUIPattern
\* matches nothing the first pattern does not
MatchesPlaceholder(cleaned) ==
  \/ /\ cleaned # <<>>
     /\ Head(cleaned) = DragHere
     /\ \E k \in 2..Len(cleaned) :
          /\ cleaned[k] = SelectFile
          /\ \A j \in 2..(k - 1) : cleaned[j] \in WhiteSpace
  \/ cleaned = <<WriteAMessage>>
  \/ \E k \in 1..Len(cleaned) : cleaned[k] = OpenEmoji

\* the cleaning steps of sanitizeMessageText
CleanMessageText(text) ==
  Trim(RemoveTags(RemoveZeroWidth(CollapseWhitespace(text))))

\* sanitizeMessageText without its placeholder filter
sanitizeMessageTextUnfiltered(text) == CleanMessageText(text)

\* sanitizeMessageText
sanitizeMessageText(text) ==
  IF MatchesPlaceholder(CleanMessageText(text)) THEN <<>> ELSE CleanMessageText(text)

\* the placeholder of an empty composer: "Drag your file here. Select your file"
DragHint == <<DragHere, Space, SelectFile>>

\* ======================================================= MessageTracker
\* extractMessageText(composer, composer) when the text input gave nothing:
\* the composer shows no sent message, so the text is
\* sanitizeMessageText(composer.textContent.trim()); text is what the text
\* input holds, ui what the rest of the composer shows
extractMessageText(composer) == sanitizeMessageText(Trim(composer.text \o composer.ui))

\* extractPreSendMessageData: the text of the text input, taken as it is,
\* else the text extractMessageText finds; null without text and
\* attachment, else the snapshot; attachments are always [] in the snapshot
ExtractPreSendMessageData(composer) ==
  LET messageText == IF Trim(composer.text) # <<>>
                     THEN Trim(composer.text)
                     ELSE extractMessageText(composer)
  IN IF Trim(messageText) = <<>> /\ ~composer.att
     THEN Null
     ELSE [conv |-> composer.conv, rn |-> composer.rn, text |-> messageText, att |-> 0]

\* extractMessageData: null without content or without a recipient name
ExtractMessageData(m) ==
  IF (m.text = <<>> /\ m.att = 0) \/ m.rn = ""
  THEN Null
  ELSE [messageId |-> "id", conv |-> m.conv, rn |-> m.rn, text |-> m.text, att |-> m.att]

\* validateMessageData
ValidateMessageData(data) ==
  IF data = Null THEN FALSE
  ELSE /\ data.messageId # "" /\ data.conv # <<>> /\ data.rn # ""
       /\ ~(data.text = <<>> /\ data.att = 0)

\* the pages that show a messaging composer
OnMessagingPage == page \in {"messaging", "compose", "thread"}

\* what the composer of a send button can hold when the handler runs
Composers ==
  {Null} \cup [conv : Convs, rn : Names, text : {<<>>, Short}, att : BOOLEAN,
                ui : {<<>>, DragHint}]

\* the latest sent message the thread can show after the settle delay
SentMessages ==
  {Null} \cup [conv : Convs, rn : Names, text : {<<>>, Short}, att : {0}]

\* handleSendClick / handleMessageSent, one run of the handler body
MsgHandle(st, composer, t, gen) ==
  IF composer = Null THEN st
  ELSE LET pre == ExtractPreSendMessageData(composer) IN
    IF pre = Null THEN st
    ELSE IF pre.text = <<>> THEN st
    ELSE DedupAndSchedule(st, CaptureKey(pre.conv, pre.text), pre, t, gen)

\* one event dispatched to an element that carries n listeners
RECURSIVE MsgDispatch(_, _, _, _, _)
MsgDispatch(n, st, composer, t, gen) ==
  IF n = 0 THEN st
  ELSE MsgDispatch(n - 1, MsgHandle(st, composer, t, gen), composer, t, gen)

\* the tracker state the handlers read and write
MsgState == [last |-> mLast, caps |-> mCaps, attempt |-> mAttempt, hist |-> mAccepted]

\* history: the run of extractPreSendMessageData a handler made, and whether
\* the handler left a settle timer behind; kept on the compose page only
PreSendRun(composer, st) ==
  IF page # "compose" THEN ex
  ELSE [fn |-> "extractPreSendMessageData", input |-> composer,
        out |-> IF composer = Null THEN Null ELSE ExtractPreSendMessageData(composer),
        scheduled |-> st.caps # mCaps]

\* scanForSendButtons: the listeners after the scan
ScanSendListeners(listeners, tracked, doc) ==
  [b \in SendButtons |->
     IF b \in doc /\ b \notin tracked THEN listeners[b] + 1 ELSE listeners[b]]

\* scanForSendButtons: the tracked set after the scan
ScanSendTracked(tracked, doc) ==
  {b \in tracked \cup doc : b \in doc}

\* the host page inserts (or re-inserts) a send button
MsgDomAdd(b) ==
  /\ OnMessagingPage
  /\ b \notin mDoc
  /\ mDoc' = mDoc \cup {b}
  /\ UNCHANGED <<now, page, sp, mi, ex, nav, aInitialized, mInitialized, mTracked, mLast,
                 mPurgeDue, mObservers, mKeydown, mKb, mEnters, mListeners, mCaps,
                 mFired, mAttempt, mAccepted, cVars, cmtVars, aCleanups, xVars>>

\* the host page removes a send button from the document
MsgDomRemove(b) ==
  /\ b \in mDoc
  /\ mDoc' = mDoc \ {b}
  /\ UNCHANGED <<now, page, sp, mi, ex, nav, aInitialized, mInitialized, mTracked, mLast,
                 mPurgeDue, mObservers, mKeydown, mKb, mEnters, mListeners, mCaps,
                 mFired, mAttempt, mAccepted, cVars, cmtVars, aCleanups, xVars>>

\* scanForSendButtons run by the mutation observer or the navigation poll
MsgScan ==
  /\ mObservers > 0
  /\ \A b \in SendButtons : ScanSendListeners(mListeners, mTracked, mDoc)[b] <= MaxListeners
  /\ mListeners' = ScanSendListeners(mListeners, mTracked, mDoc)
  /\ mTracked' = ScanSendTracked(mTracked, mDoc)
  /\ UNCHANGED <<now, page, sp, mi, ex, nav, aInitialized, mInitialized, mLast,
                 mPurgeDue, mObservers, mKeydown, mKb, mEnters, mDoc, mCaps,
                 mFired, mAttempt, mAccepted, cVars, cmtVars, aCleanups, xVars>>

\* a click (or form submit) on a send button: every attached listener runs
MsgSendClick(b, composer) ==
  /\ now \in UserInstants
  /\ b \in mDoc
  /\ mListeners[b] > 0
  /\ Len(mCaps) < MaxCaps
  /\ LET st == MsgDispatch(mListeners[b], MsgState, composer, now, aCleanups)
     IN /\ mLast' = st.last
        /\ mCaps' = st.caps
        /\ mAttempt' = st.attempt
        /\ mAccepted' = st.hist
        /\ ex' = PreSendRun(composer, st)
  /\ UNCHANGED <<now, page, sp, mi, nav, aInitialized, mInitialized, mTracked,
                 mPurgeDue, mObservers, mKeydown, mKb, mEnters, mDoc, mListeners,
                 mFired, cVars, cmtVars, aCleanups, xVars>>

\* handleKeyboardShortcuts: Enter in a composer with an enabled send button;
\* every keydown listener on the document schedules handleMessageSent
MsgKeydownEnter ==
  /\ now \in UserInstants
  /\ OnMessagingPage
  /\ mKeydown > 0
  /\ mDoc # {}
  /\ mKb = <<>>
  /\ mEnters < MaxEnters
  /\ mEnters' = mEnters + 1
  /\ mKb' = mKb \o [i \in 1..mKeydown |-> now + KeyboardDelayMs]
  /\ UNCHANGED <<now, page, sp, mi, ex, nav, aInitialized, mInitialized, mTracked, mLast,
                 mPurgeDue, mObservers, mKeydown, mDoc, mListeners, mCaps,
                 mFired, mAttempt, mAccepted, cVars, cmtVars, aCleanups, xVars>>

\* handleMessageSent, run by the 500 ms timer of the shortcut
MsgKeyboardTimer(composer) ==
  /\ mKb # <<>>
  /\ Head(mKb) = now
  /\ Len(mCaps) < MaxCaps
  /\ mKb' = Tail(mKb)
  /\ LET st == MsgHandle(MsgState, composer, now, aCleanups)
     IN /\ mLast' = st.last
        /\ mCaps' = st.caps
        /\ mAttempt' = st.attempt
        /\ mAccepted' = st.hist
        /\ ex' = PreSendRun(composer, st)
  /\ UNCHANGED <<now, page, sp, mi, nav, aInitialized, mInitialized, mTracked,
                 mPurgeDue, mObservers, mKeydown, mEnters, mDoc, mListeners,
                 mFired, cVars, cmtVars, aCleanups, xVars>>

PreSendRecord(pre) == [kind |-> "presend", rn |-> pre.rn, text |-> pre.text, att |-> pre.att]
ConfirmedRecord(d) == [kind |-> "confirmed", rn |-> d.rn, text |-> d.text, att |-> d.att]

\* captureMessageFromThread: the outcome of a settle timer.
\* container: a thread container was found; sent: the latest sent message
\* (Null when none is found); r1, r2: what the sink answers.
\* phase2 names how the second phase ended; late: cleanup() ran between
\* the scheduling and the firing of the timer.
CaptureMessageFromThread(timer, container, sent, r1, r2, gen) ==
  LET pre == PreSendRecord(timer.pre)
      data == IF sent = Null THEN Null ELSE ExtractMessageData(sent)
      phase2 == IF ~container THEN "nocontainer"
                ELSE IF sent = Null THEN "nosent"
                ELSE IF ~ValidateMessageData(data) THEN "invalid"
                ELSE "confirmed"
      first == IF phase2 = "confirmed" THEN ConfirmedRecord(data) ELSE pre
      out == [valid |-> TRUE, pre |-> pre, late |-> timer.gen # gen, phase2 |-> phase2,
              sink |-> <<>>, threw |-> FALSE]
  IN IF ~container
     THEN out
     ELSE IF ~SinkThrows(r1)
     THEN [out EXCEPT !.sink = <<first>>]
     ELSE [out EXCEPT !.sink = <<first, pre>>, !.threw = SinkThrows(r2)]

\* the 1500 ms settle timer i fires
MsgSettleTimer(i, container, sent, r1, r2) ==
  /\ i \in 1..Len(mCaps)
  /\ mCaps[i].due = now
  /\ mFired' = CaptureMessageFromThread(mCaps[i], container, sent, r1, r2, aCleanups)
  /\ mCaps' = RemoveAt(mCaps, i)
  /\ UNCHANGED <<now, page, sp, mi, ex, nav, aInitialized, mInitialized, mTracked, mLast,
                 mPurgeDue, mObservers, mKeydown, mKb, mEnters, mDoc, mListeners,
                 mAttempt, mAccepted, cVars, cmtVars, aCleanups, xVars>>

\* the callback of setupCleanupInterval
MsgPurge ==
  /\ mPurgeDue # 0
  /\ mPurgeDue = now
  /\ mLast' = PurgeMap(mLast, now)
  /\ mPurgeDue' = mPurgeDue + PurgeEveryMs
  /\ UNCHANGED <<now, page, sp, mi, ex, nav, aInitialized, mInitialized, mTracked,
                 mObservers, mKeydown, mKb, mEnters, mDoc, mListeners, mCaps,
                 mFired, mAttempt, mAccepted, cVars, cmtVars, aCleanups, xVars>>

\* ============================================= ConnectionRequestTracker
\* isDirectConnectButton: the button sits in a PYMK / suggestion card
\* (card: what button.closest(...) finds)
IsDirectConnectButton(card) == card # Null

\* validateConnectionRequestData
ValidateConnectionRequestData(d) == d.rn # "" /\ d.requestId # ""

\* validateConnectionRequestDataComplete
ValidateConnectionRequestDataComplete(d) ==
  IF d = Null THEN FALSE
  ELSE d.requestId # "" /\ d.rn # "" /\ d.timestamp # ""

\* what the invite modal can show when its send button is clicked
ModalContents == [url : Urls, rn : Names, msg : {<<>>, Short}]

\* extractPreSendConnectionRequestData: null without a modal or a recipient
ExtractPreSendConnectionRequestData(modalOpen, m) ==
  IF ~modalOpen THEN Null
  ELSE IF m.rn = "" THEN Null
  ELSE [requestId |-> "conn-req", rn |-> m.rn, url |-> m.url, msg |-> m.msg,
        timestamp |-> "iso"]

\* extractConfirmedConnectionRequestData(preSendData)
ExtractConfirmedConnectionRequestData(pre) ==
  LET c == [requestId |-> IF pre.requestId # "" THEN pre.requestId ELSE "conn-req",
            rn |-> pre.rn, url |-> pre.url, msg |-> pre.msg, timestamp |-> "iso"]
  IN IF ValidateConnectionRequestData(c) THEN c ELSE Null

\* handleModalSendClick, one run of the handler body
ConnHandle(st, modalOpen, m, t, gen) ==
  LET pre == ExtractPreSendConnectionRequestData(modalOpen, m) IN
    IF pre = Null THEN st
    ELSE DedupAndSchedule(st, CaptureKey(pre.url, pre.msg), pre, t, gen)

RECURSIVE ConnDispatch(_, _, _, _, _, _)
ConnDispatch(n, st, modalOpen, m, t, gen) ==
  IF n = 0 THEN st
  ELSE ConnDispatch(n - 1, ConnHandle(st, modalOpen, m, t, gen), modalOpen, m, t, gen)

\* the tracker state the handlers read and write
ConnState == [last |-> cLast, caps |-> cCaps, attempt |-> cAttempt, hist |-> cAccepted]

\* scanForConnectButtons: connect-button listeners after the scan
ScanConnectListeners(listeners, tracked, doc) ==
  [b \in ConnectButtons |->
     IF b \in doc /\ b \notin tracked THEN listeners[b] + 1 ELSE listeners[b]]

\* scanForConnectButtons: tracked connect buttons after the scan
ScanConnectTracked(tracked, doc) ==
  {b \in tracked \cup doc : b \in doc}

\* the modal part of the scan and handleModalAppeared: attach once per
\* untracked send button found by findConnectionSendButton
TrackModalListeners(listeners, tracked, modal) ==
  [s \in ModalSendButtons |->
     IF s \in modal /\ s \notin tracked THEN listeners[s] + 1 ELSE listeners[s]]

\* trackedSendButtons after the modal part of the scan
TrackModalTracked(tracked, modal) == tracked \cup modal

ConnDomAdd(b) ==
  /\ page = "network"
  /\ b \notin cDocConnect
  /\ cDocConnect' = cDocConnect \cup {b}
  /\ UNCHANGED <<now, page, sp, mi, ex, nav, aInitialized, mVars, cInitialized,
                 cTrackedConnect, cTrackedSend, cLast, cPurgeDue, cObservers,
                 cModalObserver, cModal, cConnListeners, cSendListeners,
                 cCaps, cFired, cDirect, cAttempt, cAccepted, cmtVars, aCleanups, xVars>>

ConnDomRemove(b) ==
  /\ b \in cDocConnect
  /\ cDocConnect' = cDocConnect \ {b}
  /\ UNCHANGED <<now, page, sp, mi, ex, nav, aInitialized, mVars, cInitialized,
                 cTrackedConnect, cTrackedSend, cLast, cPurgeDue, cObservers,
                 cModalObserver, cModal, cConnListeners, cSendListeners,
                 cCaps, cFired, cDirect, cAttempt, cAccepted, cmtVars, aCleanups, xVars>>

\* the invite modal opens; the modal observer, when connected, runs
\* handleModalAppeared (ready: waitForConnectionModalReady resolved)
ConnDomOpenModal(s, ready) ==
  /\ page = "profile"
  /\ cModal = {}
  /\ cModal' = {s}
  /\ IF cModalObserver /\ ready
     THEN /\ TrackModalListeners(cSendListeners, cTrackedSend, {s})[s] <= MaxListeners
          /\ cSendListeners' = TrackModalListeners(cSendListeners, cTrackedSend, {s})
          /\ cTrackedSend' = TrackModalTracked(cTrackedSend, {s})
     ELSE UNCHANGED <<cSendListeners, cTrackedSend>>
  /\ UNCHANGED <<now, page, sp, mi, ex, nav, aInitialized, mVars, cInitialized,
                 cTrackedConnect, cLast, cPurgeDue, cObservers,
                 cModalObserver, cDocConnect, cConnListeners,
                 cCaps, cFired, cDirect, cAttempt, cAccepted, cmtVars, aCleanups, xVars>>

ConnDomCloseModal ==
  /\ cModal # {}
  /\ cModal' = {}
  /\ UNCHANGED <<now, page, sp, mi, ex, nav, aInitialized, mVars, cInitialized,
                 cTrackedConnect, cTrackedSend, cLast, cPurgeDue, cObservers,
                 cModalObserver, cDocConnect, cConnListeners, cSendListeners,
                 cCaps, cFired, cDirect, cAttempt, cAccepted, cmtVars, aCleanups, xVars>>

\* scanForConnectButtons run by the mutation observer or the navigation poll
ConnScan ==
  /\ cObservers > 0
  /\ \A b \in ConnectButtons :
       ScanConnectListeners(cConnListeners, cTrackedConnect, cDocConnect)[b] <= MaxListeners
  /\ \A s \in ModalSendButtons :
       TrackModalListeners(cSendListeners, cTrackedSend, cModal)[s] <= MaxListeners
  /\ cConnListeners' = ScanConnectListeners(cConnListeners, cTrackedConnect, cDocConnect)
  /\ cTrackedConnect' = ScanConnectTracked(cTrackedConnect, cDocConnect)
  /\ cSendListeners' = TrackModalListeners(cSendListeners, cTrackedSend, cModal)
  /\ cTrackedSend' = TrackModalTracked(cTrackedSend, cModal)
  /\ UNCHANGED <<now, page, sp, mi, ex, nav, aInitialized, mVars, cInitialized,
                 cLast, cPurgeDue, cObservers, cModalObserver, cDocConnect, cModal,
                 cCaps, cFired, cDirect, cAttempt, cAccepted, cmtVars, aCleanups, xVars>>

\* handleConnectClick + handleDirectConnection, every attached listener
\* runs; valid: extractDirectConnectionRequestData gave a complete record.
\* The number of sink calls the click made is recorded.
DirectSinkCalls(card, n, valid) ==
  IF IsDirectConnectButton(card) /\ valid THEN n ELSE 0

\* history: the last click on a connect button and the click before it
NoClick == [valid |-> FALSE]

ConnConnectClick(b, card, valid) ==
  /\ now \in UserInstants
  /\ b \in cDocConnect
  /\ cConnListeners[b] > 0
  /\ cDirect' = [valid |-> TRUE, at |-> now,
                 direct |-> IsDirectConnectButton(card),
                 calls |-> DirectSinkCalls(card, cConnListeners[b], valid),
                 hasPrev |-> cDirect.valid,
                 prevAt |-> IF cDirect.valid THEN cDirect.at ELSE 0,
                 prevDirect |-> IF cDirect.valid THEN cDirect.direct ELSE FALSE,
                 prevCalls |-> IF cDirect.valid THEN cDirect.calls ELSE 0]
  /\ UNCHANGED <<now, page, sp, mi, ex, nav, aInitialized, mVars, cInitialized,
                 cTrackedConnect, cTrackedSend, cLast, cPurgeDue, cObservers,
                 cModalObserver, cDocConnect, cModal, cConnListeners, cSendListeners,
                 cCaps, cFired, cAttempt, cAccepted, cmtVars, aCleanups, xVars>>

\* a click (or form submit) on the modal send button
ConnSendClick(s, m) ==
  /\ now \in UserInstants
  /\ s \in cModal
  /\ cSendListeners[s] > 0
  /\ Len(cCaps) < MaxCaps
  /\ LET st == ConnDispatch(cSendListeners[s], ConnState, TRUE, m, now, aCleanups)
     IN /\ cLast' = st.last
        /\ cCaps' = st.caps
        /\ cAttempt' = st.attempt
        /\ cAccepted' = st.hist
  /\ UNCHANGED <<now, page, sp, mi, ex, nav, aInitialized, mVars, cInitialized,
                 cTrackedConnect, cTrackedSend, cPurgeDue, cObservers,
                 cModalObserver, cDocConnect, cModal, cConnListeners, cSendListeners,
                 cFired, cDirect, cmtVars, aCleanups, xVars>>

ConnPreSendRecord(pre) == [kind |-> "presend", rn |-> pre.rn, url |-> pre.url, msg |-> pre.msg]
ConnConfirmedRecord(d) == [kind |-> "confirmed", rn |-> d.rn, url |-> d.url, msg |-> d.msg]

\* captureConfirmedConnectionRequest
CaptureConfirmedConnectionRequest(timer, r1, r2, gen) ==
  LET pre == ConnPreSendRecord(timer.pre)
      confirmed == ExtractConfirmedConnectionRequestData(timer.pre)
      first == IF ~ValidateConnectionRequestDataComplete(confirmed) THEN pre
               ELSE ConnConfirmedRecord(confirmed)
      out == [valid |-> TRUE, pre |-> pre, late |-> timer.gen # gen,
              sink |-> <<>>, threw |-> FALSE]
  IN IF ~SinkThrows(r1)
     THEN [out EXCEPT !.sink = <<first>>]
     ELSE [out EXCEPT !.sink = <<first, pre>>, !.threw = SinkThrows(r2)]

ConnSettleTimer(i, r1, r2) ==
  /\ i \in 1..Len(cCaps)
  /\ cCaps[i].due = now
  /\ cFired' = CaptureConfirmedConnectionRequest(cCaps[i], r1, r2, aCleanups)
  /\ cCaps' = RemoveAt(cCaps, i)
  /\ UNCHANGED <<now, page, sp, mi, ex, nav, aInitialized, mVars, cInitialized,
                 cTrackedConnect, cTrackedSend, cLast, cPurgeDue, cObservers,
                 cModalObserver, cDocConnect, cModal, cConnListeners, cSendListeners,
                 cDirect, cAttempt, cAccepted, cmtVars, aCleanups, xVars>>

ConnPurge ==
  /\ cPurgeDue # 0
  /\ cPurgeDue = now
  /\ cLast' = PurgeMap(cLast, now)
  /\ cPurgeDue' = cPurgeDue + PurgeEveryMs
  /\ UNCHANGED <<now, page, sp, mi, ex, nav, aInitialized, mVars, cInitialized,
                 cTrackedConnect, cTrackedSend, cObservers,
                 cModalObserver, cDocConnect, cModal, cConnListeners, cSendListeners,
                 cCaps, cFired, cDirect, cAttempt, cAccepted, cmtVars, aCleanups, xVars>>

\* ===================================================== comment tracking
\* the pages whose comment boxes are looked at
OnCommentPage == page \in {"feed", "comments"}

NoComments == [clicks |-> 0, text |-> <<>>, found |-> FALSE, sunk |-> <<>>, calls |-> <<>>]

\* history: the runs of the submit handler, counted, with the last one's
\* input; kept on the comments page only
CommentRun(editor, found) ==
  IF page # "comments" THEN cmtHist
  ELSE [cmtHist EXCEPT !.clicks = @ + 1, !.text = Trim(editor), !.found = found]

\* the handler going on with whatever text the editor holds
CommentAcceptedUnchecked(editor, found) == found

\* the early returns of handleCommentSubmission: no editor or container,
\* or an empty trimmed text
CommentAccepted(editor, found) == Trim(editor) # <<>> /\ found

\* handleCommentSubmission (createCommentSubmissionListener): the click on
\* the submit button; editor: the textContent of the editor; found: the
\* editor and the post container were found.  An empty comment or a
\* missing node ends the handler; else the 200 ms timer is set.
\* cmtHist counts the runs of the handler and keeps the last one's input.
CommentSubmitClick(editor, found) ==
  /\ now \in UserInstants
  /\ OnCommentPage
  /\ cmtListener
  /\ Len(cmtCaps) < MaxCaps
  /\ cmtHist.clicks < MaxClicks
  /\ cmtHist' = CommentRun(editor, found)
  /\ cmtCaps' = IF CommentAccepted(editor, found)
                THEN Append(cmtCaps, NewTimer(<<>>, [text |-> Trim(editor),
                                                     click |-> CommentRun(editor, found).clicks],
                                              now, aCleanups, CommentSettleMs))
                ELSE cmtCaps
  /\ UNCHANGED <<now, page, sp, mi, ex, nav, aInitialized, mVars, cVars, cmtListener, cmtFired,
                 cmtDoc, aCleanups, xVars>>

\* the document renders a comment node (.comments-comment-entity) with the
\* given text and author, before or after the nodes it holds; clicks: the
\* runs of the submit handler before the node was rendered
CommentNodeRendered(text, author, first) ==
  /\ page = "comments"
  /\ now \in UserInstants
  /\ Len(cmtDoc) < MaxNodes
  /\ LET node == [text |-> text, author |-> author, clicks |-> cmtHist.clicks]
     IN cmtDoc' = IF first THEN <<node>> \o cmtDoc ELSE Append(cmtDoc, node)
  /\ UNCHANGED <<now, page, sp, mi, ex, nav, aInitialized, mVars, cVars, cmtListener, cmtCaps,
                 cmtFired, cmtHist, aCleanups, xVars>>

\* commentNodes.find(...): the first comment node of the document, in
\* document order, whose trimmed text is the submitted text; 0 if none
FindCommentNode(doc, text) ==
  IF \E i \in 1..Len(doc) : Trim(doc[i].text) = text
  THEN CHOOSE i \in 1..Len(doc) :
         /\ Trim(doc[i].text) = text
         /\ \A j \in 1..(i - 1) : Trim(doc[j].text) # text
  ELSE 0

\* the author of the record: extractCommentAuthorInfoUniversal(newCommentNode)
\* if a node was found, detectUserFromDOM() otherwise
CommentAuthor(doc, text) ==
  IF FindCommentNode(doc, text) # 0
  THEN [from |-> "node", author |-> doc[FindCommentNode(doc, text)].author,
        rendered |-> doc[FindCommentNode(doc, text)].clicks]
  ELSE [from |-> "body", author |-> "me", rendered |-> 0]

\* the 200 ms timer: callback(commentData) -> handleCaptureComment, which
\* calls the sink once and swallows a failure; sunk keeps the records the
\* sink took, with the instant of their click; calls keeps every record
\* handed to the callback, with the click it belongs to and where its
\* author came from
CommentSettleTimer(i, r) ==
  /\ i \in 1..Len(cmtCaps)
  /\ cmtCaps[i].due = now
  /\ cmtFired' = [valid |-> TRUE, late |-> cmtCaps[i].gen # aCleanups,
                  sink |-> <<[kind |-> "comment", text |-> cmtCaps[i].pre.text]>>]
  /\ cmtHist' = IF page # "comments" THEN cmtHist
                ELSE [cmtHist EXCEPT
                        !.sunk = IF r = "ok" /\ Len(cmtHist.sunk) < MaxCaps
                                 THEN Append(@, [text |-> cmtCaps[i].pre.text,
                                                 at |-> cmtCaps[i].at])
                                 ELSE @,
                        !.calls = Append(@, [text |-> cmtCaps[i].pre.text,
                                             click |-> cmtCaps[i].pre.click,
                                             at |-> cmtCaps[i].at, firedAt |-> now,
                                             by |-> CommentAuthor(cmtDoc, cmtCaps[i].pre.text)])]
  /\ cmtCaps' = RemoveAt(cmtCaps, i)
  /\ UNCHANGED <<now, page, sp, mi, ex, nav, aInitialized, mVars, cVars, cmtListener, cmtDoc,
                 aCleanups, xVars>>

\* =================================================== PerformanceManager
\* The manager is one record: the fields of the class, the part of the
\* document it looks at (docPosts, docIfaces, hidden), its pending timers
\* (0 = not pending) and history fields (h...) that record what its
\* callbacks did.
NoPass == [ran |-> FALSE, detached |-> 0, stale |-> 0, evictedPosts |-> 0,
           evictedIfaces |-> 0]

\* history: the last mutation the MutationObserver of startObserving was
\* told of, and the rescan timers before and after its callback
NoMutation == [kind |-> "none"]

\* the fields after `new PerformanceManager()`: isTabVisible = true whatever
\* document.hidden says, the cleanup interval armed by the constructor
PmConstructed(hidden, t) ==
  [hidden |-> hidden, isTabVisible |-> TRUE, observer |-> FALSE, started |-> FALSE,
   onPostVisible |-> FALSE, onInterfaceVisible |-> FALSE,
   docPosts |-> {}, docIfaces |-> {},
   managedPosts |-> <<>>, managedInterfaces |-> <<>>, processQueue |-> <<>>,
   throttleDue |-> 0, scrollDue |-> 0, debPostsDue |-> 0, debIfacesDue |-> 0,
   resumeDues |-> {}, cleanupDue |-> t + CleanupEveryMs,
   bars |-> [e \in Posts |-> 0], hExisting |-> FALSE,
   hCalls |-> [e \in Posts |-> 0], hBatch |-> 0, hHiddenWork |-> FALSE,
   hResumed |-> FALSE, hPass |-> NoPass, hMut |-> NoMutation]

\* Map.has / Map.get on a map kept as the sequence of its entries in
\* insertion order
Has(map, e) == \E i \in 1..Len(map) : map[i].el = e
Entry(map, e) == map[CHOOSE i \in 1..Len(map) : map[i].el = e]
Touch(map, S, t) ==
  [i \in 1..Len(map) |-> IF map[i].el \in S THEN [map[i] EXCEPT !.lastSeen = t]
                         ELSE map[i]]

\* querySelectorAll returns the nodes in document order
RECURSIVE DocOrder(_)
DocOrder(S) ==
  IF S = {} THEN <<>>
  ELSE LET m == CHOOSE x \in S : \A y \in S : x <= y
       IN <<m>> \o DocOrder(S \ {m})

hasButton(p, e) == Has(p.managedPosts, e) /\ Entry(p.managedPosts, e).hasButton

scanForPosts(p, t) ==
  IF ~p.observer \/ ~p.isTabVisible THEN p
  ELSE LET new == {e \in p.docPosts : ~Has(p.managedPosts, e)}
           added == [i \in 1..Cardinality(new) |->
                       [el |-> DocOrder(new)[i], lastSeen |-> t, hasButton |-> FALSE]]
       IN [p EXCEPT !.managedPosts = @ \o added,
                    !.hCalls = [e \in Posts |-> IF e \in new THEN 0 ELSE p.hCalls[e]],
                    !.hHiddenWork = @ \/ (p.hidden /\ new # {})]

\* scanForMessagingInterfaces and scanForConnectionInterfaces: the same
\* code over two selector lists; both callbacks are set by the same handler
scanForInterfaces(p, t) ==
  IF ~p.isTabVisible \/ ~p.onInterfaceVisible THEN p
  ELSE LET new == {e \in p.docIfaces : ~Has(p.managedInterfaces, e)}
           added == [i \in 1..Cardinality(new) |->
                       [el |-> DocOrder(new)[i], lastSeen |-> t]]
       IN [p EXCEPT !.managedInterfaces = Touch(@, p.docIfaces, t) \o added,
                    !.hHiddenWork = @ \/ (p.hidden /\ new # {})]

markPostAsProcessed(p, e, t) ==
  IF Has(p.managedPosts, e)
  THEN [p EXCEPT !.managedPosts =
          [i \in 1..Len(@) |-> IF @[i].el = e
                               THEN [@[i] EXCEPT !.hasButton = TRUE, !.lastSeen = t]
                               ELSE @[i]]]
  ELSE [p EXCEPT !.managedPosts =
          Append(@, [el |-> e, lastSeen |-> t, hasButton |-> TRUE])]

\* what a callback finds in the document: the posts whose action bar is
\* rendered (bar) and the posts whose extracted data validates (valid)
ReadyStates == [bar : SUBSET Posts, valid : SUBSET Posts]

\* injectAiCaptureButton: the final check of the action bar, then one
\* capture-button container more in it (p.bars counts them per post)
injectAiCaptureButton(p, e) ==
  IF p.bars[e] > 0 THEN p ELSE [p EXCEPT !.bars[e] = @ + 1]

\* a handler that trusts the tracked-post map and never looks at the
\* action bar for a container
handlePostVisibleMapOnly(p, e, t, ready) ==
  IF hasButton(p, e) THEN p
  ELSE LET q == [p EXCEPT !.hCalls[e] = Min(@ + 1, MaxCalls)]
       IN IF e \notin ready.bar \/ e \notin ready.valid THEN q
          ELSE [markPostAsProcessed(q, e, t) EXCEPT !.bars[e] = @ + 1]

\* onPostVisible = LinkedInAiAssistant.handlePostVisible: it returns at
\* once for a post that has its button and for one without an action bar,
\* marks a post whose action bar holds a container already, and marks and
\* injects when the post validates.  It runs to its end in one task: the
\* await stands after the injection.  hExisting: a callback has found a
\* container in the action bar.
handlePostVisible(p, e, t, ready) ==
  IF hasButton(p, e) THEN p
  ELSE LET q == [p EXCEPT !.hCalls[e] = Min(@ + 1, MaxCalls)]
       IN IF e \notin ready.bar THEN q
          ELSE IF q.bars[e] > 0
          THEN [markPostAsProcessed(q, e, t) EXCEPT !.hExisting = TRUE]
          ELSE IF e \notin ready.valid THEN q
          ELSE injectAiCaptureButton(markPostAsProcessed(q, e, t), e)

RECURSIVE HandleBatch(_, _, _, _)
HandleBatch(p, batch, t, ready) ==
  IF batch = <<>> THEN p
  ELSE HandleBatch(handlePostVisible(p, Head(batch), t, ready), Tail(batch), t, ready)

\* the function wrapped by processQueueThrottled
ProcessQueue(p, t, ready) ==
  IF ~p.onPostVisible \/ p.processQueue = <<>> THEN p
  ELSE LET n == Min(BatchSize, Len(p.processQueue))
           batch == SubSeq(p.processQueue, 1, n)
           q == [p EXCEPT !.processQueue = SubSeq(@, n + 1, Len(@)),
                          !.hBatch = n,
                          !.hHiddenWork = @ \/ p.hidden]
       IN HandleBatch(q, batch, t, ready)

\* throttle(func, 500): a call outside the window runs func and opens the
\* window; a call inside the window is dropped
processQueueThrottled(p, t, ready) ==
  IF p.throttleDue # 0 THEN p
  ELSE [ProcessQueue(p, t, ready) EXCEPT !.throttleDue = t + ProcessThrottleMs]

\* the sort of cleanupOldPosts with the comparator reversed
SortByLastSeenDescending(map) ==
  LET rank(i) == Cardinality({j \in 1..Len(map) :
                     \/ map[j].lastSeen > map[i].lastSeen
                     \/ map[j].lastSeen = map[i].lastSeen /\ j < i}) + 1
  IN [r \in 1..Len(map) |-> map[CHOOSE i \in 1..Len(map) : rank(i) = r]]

\* Array.from(map.entries()).sort((a, b) => a.lastSeen - b.lastSeen)
SortByLastSeen(map) ==
  LET rank(i) == Cardinality({j \in 1..Len(map) :
                     \/ map[j].lastSeen < map[i].lastSeen
                     \/ map[j].lastSeen = map[i].lastSeen /\ j < i}) + 1
  IN [r \in 1..Len(map) |-> map[CHOOSE i \in 1..Len(map) : rank(i) = r]]

Expired(e, doc, t) == e.el \notin doc \/ t - e.lastSeen > PmMaxAgeMs
\* the removal that looks only at the document
RemoveDetached(map, doc, t) == SelectSeq(map, LAMBDA e : e.el \in doc)
RemoveExpired(map, doc, t) == SelectSeq(map, LAMBDA e : ~Expired(e, doc, t))

EvictOldest(map) ==
  IF Len(map) > MaxButtons
  THEN LET sorted == SortByLastSeen(map)
           toRemoveCount == Len(map) - MaxButtons
           gone == {sorted[i].el : i \in 1..toRemoveCount}
       IN SelectSeq(map, LAMBDA e : e.el \notin gone)
  ELSE map

cleanupOldPosts(p, t) ==
  LET posts1 == RemoveExpired(p.managedPosts, p.docPosts, t)
      posts2 == EvictOldest(posts1)
      ifaces1 == RemoveExpired(p.managedInterfaces, p.docIfaces, t)
      ifaces2 == EvictOldest(ifaces1)
      all == [i \in 1..(Len(p.managedPosts) + Len(p.managedInterfaces)) |->
                IF i <= Len(p.managedPosts)
                THEN [post |-> TRUE, e |-> p.managedPosts[i]]
                ELSE [post |-> FALSE, e |-> p.managedInterfaces[i - Len(p.managedPosts)]]]
      doc(x) == IF x.post THEN p.docPosts ELSE p.docIfaces
  IN [p EXCEPT !.managedPosts = posts2,
               !.managedInterfaces = ifaces2,
               !.hPass = [ran |-> TRUE,
                          detached |-> Cardinality({i \in DOMAIN all :
                                         all[i].e.el \notin doc(all[i])}),
                          stale |-> Cardinality({i \in DOMAIN all :
                                         t - all[i].e.lastSeen > PmMaxAgeMs}),
                          evictedPosts |-> Len(posts1) - Len(posts2),
                          evictedIfaces |-> Len(ifaces1) - Len(ifaces2)]]

\* initialize(...) and startObserving() of setupTracking on a feed page,
\* then initializeMessagingTracking and initializeConnectionTracking
startObserving(p, t) ==
  [scanForInterfaces(scanForPosts([p EXCEPT !.observer = TRUE], t), t)
     EXCEPT !.started = TRUE]

PmSetupTracking(p, t, feed) ==
  LET q == IF feed
           THEN startObserving([p EXCEPT !.onPostVisible = TRUE, !.observer = TRUE], t)
           ELSE p
  IN [q EXCEPT !.onInterfaceVisible = TRUE]

stopObserving(p) ==
  [p EXCEPT !.observer = FALSE, !.cleanupDue = 0,
            !.managedPosts = <<>>, !.managedInterfaces = <<>>,
            !.hResumed = FALSE]

IsLinkedInFeedPage == page \in {"feed", "posts", "observe"}
OnPostsPage == page \in {"posts", "observe"} /\ now \in PmUserInstants

\* --- the document and the user, on a feed page that shows posts
PmDomAddPost(e) ==
  /\ OnPostsPage
  /\ e \notin pm.docPosts
  /\ pm' = [pm EXCEPT !.docPosts = @ \cup {e},
                      !.debPostsDue = IF pm.started /\ pm.isTabVisible
                                      THEN now + ScanDebounceMs ELSE @,
                      !.hResumed = FALSE]
  /\ UNCHANGED <<now, page, sp, mi, ex, nav, aInitialized, mVars, cVars, cmtVars, aCleanups, btn, wait>>

PmDomRemovePost(e) ==
  /\ page \in {"posts", "cleanup", "observe"}
  /\ now \in PmUserInstants \/ page = "cleanup"
  /\ e \in pm.docPosts
  /\ pm' = [pm EXCEPT !.docPosts = @ \ {e}]
  /\ UNCHANGED <<now, page, sp, mi, ex, nav, aInitialized, mVars, cVars, cmtVars, aCleanups, btn, wait>>

PmDomAddInterface(e) ==
  /\ OnPostsPage
  /\ e \notin pm.docIfaces
  /\ pm' = [pm EXCEPT !.docIfaces = @ \cup {e},
                      !.debIfacesDue = IF pm.started /\ pm.isTabVisible
                                       THEN now + ScanDebounceMs ELSE @,
                      !.hResumed = FALSE]
  /\ UNCHANGED <<now, page, sp, mi, ex, nav, aInitialized, mVars, cVars, cmtVars, aCleanups, btn, wait>>

\* One mutation record delivered to the MutationObserver of startObserving:
\* the document gains the node e of the given kind ("post", "interface",
\* "other"); self: the added node is e itself, else e arrives inside an
\* added wrapper.  The callback tests node.matches(...) on the added nodes
\* and calls the debounced scans while the tab is visible.
MutationKinds == {"post", "interface", "other"}
ObsUserInstants == {StartTime, StartTime + 500, StartTime + ScanDebounceMs}

HasNewPosts(kind, self) == kind = "post" /\ self
HasNewInterfaces(kind, self) == kind = "interface" /\ self

PmMutation(e, kind, self) ==
  /\ page = "observe"
  /\ now \in ObsUserInstants
  /\ kind = "post" => e \in Posts \ pm.docPosts
  /\ kind = "interface" => e \in Ifaces \ pm.docIfaces
  /\ kind = "other" => e \in Posts
  /\ LET live == pm.started /\ pm.isTabVisible
         posts == IF live /\ HasNewPosts(kind, self)
                  THEN now + ScanDebounceMs ELSE pm.debPostsDue
         ifaces == IF live /\ HasNewInterfaces(kind, self)
                   THEN now + ScanDebounceMs ELSE pm.debIfacesDue
     IN pm' = [pm EXCEPT !.docPosts = IF kind = "post" THEN @ \cup {e} ELSE @,
                         !.docIfaces = IF kind = "interface" THEN @ \cup {e} ELSE @,
                         !.debPostsDue = posts,
                         !.debIfacesDue = ifaces,
                         !.hResumed = FALSE,
                         !.hMut = [kind |-> kind, self |-> self, at |-> now, live |-> live,
                                   before |-> <<pm.debPostsDue, pm.debIfacesDue>>,
                                   after |-> <<posts, ifaces>>]]
  /\ UNCHANGED <<now, page, sp, mi, ex, nav, aInitialized, mVars, cVars, cmtVars, aCleanups, btn, wait>>

\* a scroll event: throttle(scanForPosts, 2000)
PmScroll ==
  /\ OnPostsPage
  /\ pm.started
  /\ pm.scrollDue = 0
  /\ pm' = [scanForPosts(pm, now) EXCEPT !.scrollDue = now + ScrollThrottleMs]
  /\ UNCHANGED <<now, page, sp, mi, ex, nav, aInitialized, mVars, cVars, cmtVars, aCleanups, btn, wait>>

\* one entry delivered to the IntersectionObserver callback for an observed
\* post; the browser delivers entries only while the page is rendered
PmIntersect(e, isIntersecting, ready) ==
  /\ OnPostsPage
  /\ pm.observer
  /\ ~pm.hidden
  /\ e \in pm.docPosts
  /\ Has(pm.managedPosts, e)
  /\ Len(pm.processQueue) < MaxQueue
  /\ pm' = IF ~pm.isTabVisible THEN pm
           ELSE IF isIntersecting
           THEN LET p1 == [pm EXCEPT !.managedPosts = Touch(@, {e}, now)]
                IN IF ~hasButton(p1, e) /\ p1.onPostVisible
                   THEN processQueueThrottled(
                          [p1 EXCEPT !.processQueue = Append(@, e)], now, ready)
                   ELSE p1
           ELSE pm
  /\ UNCHANGED <<now, page, sp, mi, ex, nav, aInitialized, mVars, cVars, cmtVars, aCleanups, btn, wait>>

\* the visibilitychange listener
PmVisibilityChange ==
  /\ OnPostsPage
  /\ pm' = [pm EXCEPT !.hidden = ~pm.hidden,
                      !.isTabVisible = pm.hidden,
                      !.resumeDues = IF pm.hidden THEN @ \cup {now + ResumeDelayMs} ELSE @,
                      !.hResumed = FALSE]
  /\ UNCHANGED <<now, page, sp, mi, ex, nav, aInitialized, mVars, cVars, cmtVars, aCleanups, btn, wait>>

\* --- timer callbacks
\* setTimeout(() => inThrottle = false, 500) of processQueueThrottled
PmThrottleRelease ==
  /\ pm.throttleDue = now
  /\ pm' = [pm EXCEPT !.throttleDue = 0]
  /\ UNCHANGED <<now, page, sp, mi, ex, nav, aInitialized, mVars, cVars, cmtVars, aCleanups, btn, wait>>

PmScrollRelease ==
  /\ pm.scrollDue = now
  /\ pm' = [pm EXCEPT !.scrollDue = 0]
  /\ UNCHANGED <<now, page, sp, mi, ex, nav, aInitialized, mVars, cVars, cmtVars, aCleanups, btn, wait>>

PmDebouncedScanPosts ==
  /\ pm.debPostsDue = now
  /\ pm' = [scanForPosts(pm, now) EXCEPT !.debPostsDue = 0]
  /\ UNCHANGED <<now, page, sp, mi, ex, nav, aInitialized, mVars, cVars, cmtVars, aCleanups, btn, wait>>

PmDebouncedScanInterfaces ==
  /\ pm.debIfacesDue = now
  /\ pm' = [scanForInterfaces(pm, now) EXCEPT !.debIfacesDue = 0]
  /\ UNCHANGED <<now, page, sp, mi, ex, nav, aInitialized, mVars, cVars, cmtVars, aCleanups, btn, wait>>

\* setTimeout(() => this.scanForPosts(), 500) of the visibility listener
PmResumeTimer ==
  /\ now \in pm.resumeDues
  /\ pm' = [scanForPosts(pm, now) EXCEPT !.resumeDues = @ \ {now},
                                         !.hResumed = pm.isTabVisible /\ pm.observer
                                                        /\ pm.onInterfaceVisible]
  /\ UNCHANGED <<now, page, sp, mi, ex, nav, aInitialized, mVars, cVars, cmtVars, aCleanups, btn, wait>>

\* setInterval(() => this.cleanupOldPosts(), 30000)
PmCleanupTimer ==
  /\ pm.cleanupDue = now
  /\ pm' = [cleanupOldPosts(pm, now) EXCEPT !.cleanupDue = now + CleanupEveryMs]
  /\ UNCHANGED <<now, page, sp, mi, ex, nav, aInitialized, mVars, cVars, cmtVars, aCleanups, btn, wait>>

PmDues ==
  IF page \in {"posts", "cleanup", "observe"}
  THEN ({pm.throttleDue, pm.scrollDue, pm.debPostsDue, pm.debIfacesDue, pm.cleanupDue}
          \cup pm.resumeDues) \ {0}
  ELSE {}

\* ====================================================== AiCaptureButton
\* The button of one post: its React state, the onCapture promises whose
\* sink call is in flight, its pending setTimeout calls (due, state to
\* set), and history fields: the last settled attempt (hLast), whether
\* 'captured' was reached (hCaptured) and whether a reset timer fired on a
\* 'loading', 'success' or 'captured' button (hStale).
NoCapture == [valid |-> FALSE]
BtnInit == [state |-> "default", pending |-> 0, timers |-> {}, hLast |-> NoCapture,
            hCaptured |-> FALSE, hStale |-> FALSE]

\* handleCapturePost without the check of response.success
handleCapturePostNoSuccessCheck(found, validPost, r) ==
  IF ~found THEN "rejected"
  ELSE IF ~validPost THEN "rejected"
  ELSE "resolved"

\* LinkedInAiAssistant.handleCapturePost: the outcome of the promise, r the
\* answer of the sink ("fail": success:false or a thrown error)
handleCapturePost(found, validPost, r) ==
  IF ~found THEN "rejected"
  ELSE IF ~validPost THEN "rejected"
  ELSE IF r = "fail" THEN "rejected"
  ELSE "resolved"

\* the continuation of handleClick after `await onCapture(postId)`
BtnSettle(b, found, validPost, r, t) ==
  LET outcome == handleCapturePost(found, validPost, r)
      state == IF outcome = "resolved" THEN "success" ELSE "error"
      timer == IF outcome = "resolved"
               THEN [due |-> t + SuccessShowMs, to |-> "captured"]
               ELSE [due |-> t + ErrorResetMs, to |-> "default"]
  IN [b EXCEPT !.state = state,
               !.timers = @ \cup {timer},
               !.hLast = [valid |-> TRUE, found |-> found, validPost |-> validPost,
                          sink |-> r, outcome |-> outcome, state |-> state]]

\* a click on the button (a disabled button gets no click): handleClick up
\* to the await; a capture that fails before the sink call settles at once
BtnClick(found, validPost) ==
  /\ page = "button"
  /\ now \in BtnUserInstants
  /\ btn.state \in {"default", "error"}
  /\ btn.pending < MaxPending
  /\ btn' = IF found /\ validPost
            THEN [btn EXCEPT !.state = "loading", !.pending = @ + 1]
            ELSE BtnSettle(btn, found, validPost, "none", now)
  /\ UNCHANGED <<now, page, sp, mi, ex, nav, aInitialized, mVars, cVars, cmtVars, aCleanups, pm, wait>>

\* the answer of the sink to a capturePost call in flight
BtnSinkAnswer(r) ==
  /\ btn.pending > 0
  /\ btn' = [BtnSettle(btn, TRUE, TRUE, r, now) EXCEPT !.pending = @ - 1]
  /\ UNCHANGED <<now, page, sp, mi, ex, nav, aInitialized, mVars, cVars, cmtVars, aCleanups, pm, wait>>

\* setTimeout(() => setState('captured'), 1500) and
\* setTimeout(() => setState('default'), 3000)
BtnTimer(timer) ==
  /\ timer \in btn.timers
  /\ timer.due = now
  /\ btn' = [btn EXCEPT !.state = timer.to,
                        !.timers = @ \ {timer},
                        !.hCaptured = @ \/ timer.to = "captured",
                        !.hStale = @ \/ (timer.to = "default"
                                          /\ btn.state \in {"loading", "success", "captured"})]
  /\ UNCHANGED <<now, page, sp, mi, ex, nav, aInitialized, mVars, cVars, cmtVars, aCleanups, pm, wait>>

BtnDues == {timer.due : timer \in btn.timers}

\* ========================================== waitForConnectionModalReady
\* The invite modal as handleModalAppeared meets it: the modal node is in
\* the document (cModal) before its textarea is (wait.textarea). Each call
\* of waitForConnectionModalReady is a record: its deadline timer and its
\* poll timer (0 = not pending) and the status of its promise.
WaitInit == [textarea |-> FALSE, calls |-> <<>>]

\* checkModal(): resolve and clear the deadline when the modal and its
\* textarea are there, poll again in 100 ms otherwise
checkModal(call, ready, t) ==
  IF ready
  THEN [call EXCEPT !.deadline = 0, !.poll = 0,
                    !.status = IF @ = "pending" THEN "resolved" ELSE @]
  ELSE [call EXCEPT !.poll = t + PollMs]

\* new Promise(...): arm the deadline, then the first checkModal()
NewWait(ready, t) ==
  checkModal([start |-> t, deadline |-> t + ModalTimeoutMs, poll |-> 0,
              status |-> "pending"], ready, t)

OnWaitPage == page = "modalwait" /\ now \in WaitUserInstants

\* the modal node is added to the document; the modal observer, when
\* connected, runs handleModalAppeared up to its await
WaitModalAppears(s) ==
  /\ OnWaitPage
  /\ cModal = {}
  /\ ~wait.textarea
  /\ Len(wait.calls) < MaxWaits
  /\ cModal' = {s}
  /\ wait' = IF cModalObserver
             THEN [wait EXCEPT !.calls = Append(@, NewWait(FALSE, now))]
             ELSE wait
  /\ UNCHANGED <<now, page, sp, mi, ex, nav, aInitialized, mVars, cInitialized,
                 cTrackedConnect, cTrackedSend, cLast, cPurgeDue, cObservers,
                 cModalObserver, cDocConnect, cConnListeners, cSendListeners,
                 cCaps, cFired, cDirect, cAttempt, cAccepted, cmtVars, aCleanups,
                 pm, btn>>

\* LinkedIn renders the textarea of the open modal
WaitTextAreaAppears ==
  /\ OnWaitPage
  /\ cModal # {}
  /\ ~wait.textarea
  /\ wait' = [wait EXCEPT !.textarea = TRUE]
  /\ UNCHANGED <<now, page, sp, mi, ex, nav, aInitialized, mVars, cVars, cmtVars, aCleanups, pm, btn>>

\* the modal is dismissed
WaitModalCloses ==
  /\ OnWaitPage
  /\ cModal # {}
  /\ cModal' = {}
  /\ wait' = [wait EXCEPT !.textarea = FALSE]
  /\ UNCHANGED <<now, page, sp, mi, ex, nav, aInitialized, mVars, cInitialized,
                 cTrackedConnect, cTrackedSend, cLast, cPurgeDue, cObservers,
                 cModalObserver, cDocConnect, cConnListeners, cSendListeners,
                 cCaps, cFired, cDirect, cAttempt, cAccepted, cmtVars, aCleanups,
                 pm, btn>>

\* setTimeout(checkModal, 100) fires; a resolution resumes
\* handleModalAppeared, which attaches the listener to an untracked send
\* button
WaitPoll(i) ==
  /\ i \in 1..Len(wait.calls)
  /\ wait.calls[i].poll = now
  /\ LET ready == cModal # {} /\ wait.textarea
         after == checkModal(wait.calls[i], ready, now)
         resumed == wait.calls[i].status = "pending" /\ after.status = "resolved"
     IN /\ wait' = [wait EXCEPT !.calls[i] = after]
        /\ IF resumed
           THEN /\ \A s \in ModalSendButtons :
                     TrackModalListeners(cSendListeners, cTrackedSend, cModal)[s]
                       <= MaxListeners
                /\ cSendListeners' = TrackModalListeners(cSendListeners, cTrackedSend, cModal)
                /\ cTrackedSend' = TrackModalTracked(cTrackedSend, cModal)
           ELSE UNCHANGED <<cSendListeners, cTrackedSend>>
  /\ UNCHANGED <<now, page, sp, mi, ex, nav, aInitialized, mVars, cInitialized,
                 cTrackedConnect, cLast, cPurgeDue, cObservers,
                 cModalObserver, cDocConnect, cModal, cConnListeners,
                 cCaps, cFired, cDirect, cAttempt, cAccepted, cmtVars, aCleanups,
                 pm, btn>>

\* the 10 s timer fires: reject; the catch of handleModalAppeared logs
WaitDeadline(i) ==
  /\ i \in 1..Len(wait.calls)
  /\ wait.calls[i].deadline = now
  /\ wait' = [wait EXCEPT !.calls[i].deadline = 0,
                          !.calls[i].status = IF @ = "pending" THEN "rejected" ELSE @]
  /\ UNCHANGED <<now, page, sp, mi, ex, nav, aInitialized, mVars, cVars, cmtVars, aCleanups, pm, btn>>

WaitDues ==
  ({wait.calls[i].poll : i \in 1..Len(wait.calls)} \cup
     {wait.calls[i].deadline : i \in 1..Len(wait.calls)}) \ {0}

\* ======================================================== post extractor
\* A post container is its text block, its author name and its media nodes
\* in document order.  A node carries the selectors of the extractor's
\* lists that match it; the metadata of an item is left out.
ImageSelectors ==
  <<".feed-shared-image img", ".feed-shared-article__image img", ".media-image img",
    ".feed-shared-image-carousel img", ".image-container img",
    "img[src*=media.licdn.com]", "img[src*=cdn.linkedin.com]">>
VideoSelectors == <<"video", ".feed-shared-video video", ".media-video video">>
DocumentSelectors == <<".feed-shared-document", ".document-attachment", ".feed-shared-file">>
ItemTypes == {"text", "image", "video", "document", "article", "carousel", "poll"}

\* container.querySelectorAll(selector), for the nodes of one kind
QuerySelectorAll(container, kind, selector) ==
  SelectSeq(container.nodes, LAMBDA n : n.kind = kind /\ selector \in n.matched)

\* the concatenation of the sequences f[1], ..., f[n], from the k-th on
RECURSIVE FlatFrom(_, _)
FlatFrom(f, k) == IF k > Len(f) THEN <<>> ELSE f[k] \o FlatFrom(f, k + 1)

Item(type, data) == [type |-> type, data |-> data]

\* extractTextContent: the text of the content block
extractTextContent(container) == Trim(container.text)

\* img.src && !img.src.includes('data:') && !img.src.includes('blob:')
UsableSrc(src) == src \notin {"", "data:image/png", "blob:https://www.linkedin.com/1"}

\* extractImages: every selector of the list is run and every usable match
\* pushed
extractImages(container) ==
  FlatFrom([k \in 1..Len(ImageSelectors) |->
              LET imgs == SelectSeq(QuerySelectorAll(container, "img", ImageSelectors[k]),
                                    LAMBDA img : UsableSrc(img.src))
              IN [i \in 1..Len(imgs) |-> Item("image", imgs[i].src)]], 1)

\* video.src || video.currentSrc || '', else the src of the first <source>
VideoData(video) == IF video.src # "" THEN video.src ELSE video.source

\* extractVideos: every selector of the list is run and every match with
\* data pushed; then the poster images of the video previews
extractVideos(container) ==
  FlatFrom([k \in 1..Len(VideoSelectors) |->
              LET videos == SelectSeq(QuerySelectorAll(container, "video", VideoSelectors[k]),
                                      LAMBDA v : VideoData(v) # "")
              IN [i \in 1..Len(videos) |-> Item("video", VideoData(videos[i]))]], 1)
  \o LET previews == SelectSeq(container.nodes,
                               LAMBDA n : n.kind = "preview" /\ n.poster # "")
     IN [i \in 1..Len(previews) |-> Item("video", previews[i].poster)]

\* linkElement?.href || titleElement?.textContent || ''
DocumentData(doc) == IF doc.href # "" THEN doc.href ELSE doc.title

\* extractDocuments: a match with a title element or a link is pushed
extractDocuments(container) ==
  FlatFrom([k \in 1..Len(DocumentSelectors) |->
              LET docs == SelectSeq(QuerySelectorAll(container, "doc", DocumentSelectors[k]),
                                    LAMBDA d : d.hasTitle \/ d.href # "")
              IN [i \in 1..Len(docs) |-> Item("document", DocumentData(docs[i]))]], 1)

\* extractArticles: url || title || '' when one of them is there
extractArticles(container) ==
  LET articles == SelectSeq(container.nodes,
                            LAMBDA n : n.kind = "article" /\ (n.title # "" \/ n.url # ""))
  IN [i \in 1..Len(articles) |->
        Item("article", IF articles[i].url # "" THEN articles[i].url ELSE articles[i].title)]

\* extractCarousels: JSON.stringify of the images, when there is one
extractCarousels(container) ==
  LET carousels == SelectSeq(container.nodes, LAMBDA n : n.kind = "carousel" /\ n.images > 0)
  IN [i \in 1..Len(carousels) |-> Item("carousel", "[{\"src\":\"u\"}]")]

\* extractPolls: JSON.stringify({question, options}) when one of them is there
extractPolls(container) ==
  LET polls == SelectSeq(container.nodes,
                         LAMBDA n : n.kind = "poll" /\ (n.question # "" \/ n.options > 0))
  IN [i \in 1..Len(polls) |-> Item("poll", "{\"question\":\"q\",\"options\":[]}")]

\* extractComprehensivePostContent
extractComprehensivePostContent(container) ==
  (IF extractTextContent(container) # <<>>
   THEN <<Item("text", extractTextContent(container))>> ELSE <<>>)
  \o extractImages(container) \o extractVideos(container) \o extractDocuments(container)
  \o extractArticles(container) \o extractCarousels(container) \o extractPolls(container)

\* determineMediaType with the first item's type for every non-empty list
determineMediaTypeOfFirst(content) ==
  IF Len(content) = 0 THEN "text" ELSE content[1].type

\* determineMediaType
determineMediaType(content) ==
  IF Len(content) = 0 THEN "text"
  ELSE IF Len(content) = 1 THEN content[1].type
  ELSE "mixed"

\* extractPostData: null without content or without an author name
extractPostData(container) ==
  LET content == extractComprehensivePostContent(container)
  IN IF Len(content) = 0 \/ container.author = ""
     THEN Null
     ELSE [content |-> content, author |-> container.author,
           mediaType |-> determineMediaType(content)]

\* the extractors at rest
ExIdle == [fn |-> "none"]

\* one call of extractPostData on the container of ex; the history keeps
\* the content list and the media type also when the result is null
ExtractPost ==
  /\ page = "extract"
  /\ ex.fn = "container"
  /\ ex' = [fn |-> "extractPostData", container |-> ex.container,
            content |-> extractComprehensivePostContent(ex.container),
            mediaType |-> determineMediaType(extractComprehensivePostContent(ex.container)),
            out |-> extractPostData(ex.container)]
  /\ UNCHANGED <<now, page, sp, mi, nav, aInitialized, mVars, cVars, cmtVars, aCleanups, xVars>>

\* one sanitizer applied to the string of ex, and to its own result
Sanitized(fn, s, once, twice) == [fn |-> fn, s |-> s, once |-> once, twice |-> twice]

ApplySanitizeText ==
  /\ page = "sanitize"
  /\ ex.fn = "string"
  /\ ex' = Sanitized("sanitizeText", ex.s, sanitizeText(ex.s), sanitizeText(sanitizeText(ex.s)))
  /\ UNCHANGED <<now, page, sp, mi, nav, aInitialized, mVars, cVars, cmtVars, aCleanups, xVars>>

ApplySanitizeConnectionText ==
  /\ page = "sanitize"
  /\ ex.fn = "string"
  /\ ex' = Sanitized("sanitizeConnectionText", ex.s, sanitizeConnectionText(ex.s),
                     sanitizeConnectionText(sanitizeConnectionText(ex.s)))
  /\ UNCHANGED <<now, page, sp, mi, nav, aInitialized, mVars, cVars, cmtVars, aCleanups, xVars>>

ApplySanitizeMessageText ==
  /\ page = "sanitize"
  /\ ex.fn = "string"
  /\ ex' = Sanitized("sanitizeMessageText", ex.s, sanitizeMessageText(ex.s),
                     sanitizeMessageText(sanitizeMessageText(ex.s)))
  /\ UNCHANGED <<now, page, sp, mi, nav, aInitialized, mVars, cVars, cmtVars, aCleanups, xVars>>

\* ================================================== LinkedInAiAssistant
\* MessageTracker.initialize runs startTracking only when a messaging
\* interface is present
HasMessagingInterface == OnMessagingPage

\* setupTracking: the PerformanceManager part, messageTracker.initialize(),
\* connectionRequestTracker.initialize() and setupCommentTracking()
SetupTrackingBody ==
  /\ aInitialized' = TRUE
  /\ IF ~mInitialized /\ HasMessagingInterface
     THEN /\ \A b \in SendButtons :
               ScanSendListeners(mListeners, mTracked, mDoc)[b] <= MaxListeners
          /\ mListeners' = ScanSendListeners(mListeners, mTracked, mDoc)
          /\ mTracked' = ScanSendTracked(mTracked, mDoc)
          /\ mObservers' = mObservers + 1
          /\ mKeydown' = mKeydown + 1
          /\ mInitialized' = TRUE
     ELSE UNCHANGED <<mListeners, mTracked, mObservers, mKeydown, mInitialized>>
  /\ IF ~cInitialized
     THEN /\ cObservers < MaxInits
          /\ \A b \in ConnectButtons :
               ScanConnectListeners(cConnListeners, cTrackedConnect, cDocConnect)[b]
                 <= MaxListeners
          /\ \A s \in ModalSendButtons :
               TrackModalListeners(cSendListeners, cTrackedSend, cModal)[s] <= MaxListeners
          /\ cConnListeners' = ScanConnectListeners(cConnListeners, cTrackedConnect, cDocConnect)
          /\ cTrackedConnect' = ScanConnectTracked(cTrackedConnect, cDocConnect)
          /\ cSendListeners' = TrackModalListeners(cSendListeners, cTrackedSend, cModal)
          /\ cTrackedSend' = TrackModalTracked(cTrackedSend, cModal)
          /\ cObservers' = cObservers + 1
          /\ cModalObserver' = TRUE
          /\ cInitialized' = TRUE
     ELSE UNCHANGED <<cConnListeners, cTrackedConnect, cSendListeners, cTrackedSend,
                      cObservers, cModalObserver, cInitialized>>
  /\ cmtListener' = TRUE
  /\ pm' = PmSetupTracking(pm, now, IsLinkedInFeedPage)
  /\ UNCHANGED <<now, page, sp, mi, ex, mLast, mPurgeDue, mKb, mEnters, mDoc, mCaps, mFired,
                 mAttempt, mAccepted, cLast, cPurgeDue, cDocConnect, cModal, cCaps,
                 cFired, cDirect, cAttempt, cAccepted, cmtCaps, cmtFired, cmtHist, cmtDoc,
                 aCleanups,
                 btn, wait>>

\* the start-up timer of initializeAfterReady firing while the assistant is
\* not initialized
AssistantSetupTracking ==
  /\ ~aInitialized
  /\ SetupTrackingBody
  /\ UNCHANGED nav

\* LinkedInAiAssistant.cleanup: performanceManager.stopObserving(),
\* MessageTracker.cleanup(),
\* ConnectionRequestTracker.cleanup(), removal of the comment listener
CleanupBody ==
  /\ aCleanups' = aCleanups + 1
  /\ mTracked' = {}
  /\ mLast' = EmptyMap
  /\ mPurgeDue' = 0
  /\ mInitialized' = FALSE
  /\ cTrackedConnect' = {}
  /\ cTrackedSend' = {}
  /\ cLast' = EmptyMap
  /\ cModalObserver' = FALSE
  /\ cPurgeDue' = 0
  /\ cInitialized' = FALSE
  /\ cmtListener' = FALSE
  /\ aInitialized' = FALSE
  /\ pm' = stopObserving(pm)
  /\ UNCHANGED <<now, page, sp, mi, ex, mObservers, mKeydown, mKb, mEnters, mDoc, mListeners,
                 mCaps, mFired, mAttempt, mAccepted, cObservers, cDocConnect, cModal,
                 cConnListeners, cSendListeners, cCaps, cFired, cDirect, cAttempt,
                 cAccepted, cmtCaps, cmtFired, cmtHist, cmtDoc, btn, wait>>

\* cleanup() called by the beforeunload listener or by hand
AssistantCleanup ==
  /\ aCleanups < MaxCleanups
  /\ CleanupBody
  /\ UNCHANGED nav

\* ===================================================== navigation script
\* The module-level code of content.tsx: initializeExtension() at load,
\* setInterval(checkForNavigation, 2000), and the timers they set.
\* loading: document.readyState is 'loading'; dcl: the DOMContentLoaded
\* listeners initialize() has added; href: window.location.href;
\* setupDues: the pending timers of initializeAfterReady; reinitDues: the
\* pending setTimeout(initializeExtension, 1000); hSetups (history): the
\* runs of setupTracking since the last cleanup().
NavIdle ==
  [loading |-> FALSE, dcl |-> 0, href |-> 0, currentUrl |-> 0, changes |-> 0,
   pollDue |-> 0, reinitDues |-> {}, setupDues |-> <<>>, hSetups |-> 0]

\* initialize(): nothing when initialized; else initializeAfterReady now or
\* at DOMContentLoaded
initialize(n, initialized, t) ==
  IF initialized THEN n
  ELSE IF n.loading THEN [n EXCEPT !.dcl = @ + 1]
  ELSE [n EXCEPT !.setupDues = Append(@, t + StartupDelayMs)]

\* the script after it ran at time t
NavLoaded(loading, t) ==
  initialize([NavIdle EXCEPT !.loading = loading, !.pollDue = t + NavPollMs], FALSE, t)

OnNavPage == page = "navigation"

\* the page changes its URL (history.pushState)
NavUrlChange ==
  /\ OnNavPage
  /\ now \in NavUserInstants
  /\ nav.changes < MaxUrlChanges
  /\ nav' = [nav EXCEPT !.href = @ + 1, !.changes = @ + 1]
  /\ UNCHANGED <<now, page, sp, mi, ex, aInitialized, mVars, cVars, cmtVars, aCleanups, xVars>>

\* DOMContentLoaded: every listener added by initialize() runs
\* initializeAfterReady
NavDomContentLoaded ==
  /\ OnNavPage
  /\ nav.loading
  /\ nav' = [nav EXCEPT !.loading = FALSE, !.dcl = 0,
                        !.setupDues = @ \o [i \in 1..nav.dcl |-> now + StartupDelayMs]]
  /\ UNCHANGED <<now, page, sp, mi, ex, aInitialized, mVars, cVars, cmtVars, aCleanups, xVars>>

\* checkForNavigation, run by the 2000 ms interval: on a new URL cleanup()
\* and setTimeout(initializeExtension, 1000).  The interval is followed up
\* to NavEnd.
NavPoll ==
  /\ OnNavPage
  /\ nav.pollDue = now
  /\ IF nav.href # nav.currentUrl
     THEN /\ CleanupBody
          /\ nav' = [nav EXCEPT !.currentUrl = nav.href,
                                !.reinitDues = @ \cup {now + ReinitDelayMs},
                                !.pollDue = IF now + NavPollMs <= NavEnd
                                            THEN now + NavPollMs ELSE 0,
                                !.hSetups = 0]
     ELSE /\ nav' = [nav EXCEPT !.pollDue = IF now + NavPollMs <= NavEnd
                                            THEN now + NavPollMs ELSE 0]
          /\ UNCHANGED <<now, page, sp, mi, ex, aInitialized, mVars, cVars, cmtVars, aCleanups,
                         xVars>>

\* initializeExtension, run by the 1000 ms timer
NavReinit ==
  /\ OnNavPage
  /\ now \in nav.reinitDues
  /\ nav' = initialize([nav EXCEPT !.reinitDues = @ \ {now}], aInitialized, now)
  /\ UNCHANGED <<now, page, sp, mi, ex, aInitialized, mVars, cVars, cmtVars, aCleanups, xVars>>

\* the 2000 ms timer of initializeAfterReady: setupTracking() and
\* isInitialized = true, whatever isInitialized is by then
NavSetupTimer(i) ==
  /\ OnNavPage
  /\ i \in 1..Len(nav.setupDues)
  /\ nav.setupDues[i] = now
  /\ SetupTrackingBody
  /\ nav' = [nav EXCEPT !.setupDues = RemoveAt(@, i),
                        !.hSetups = Min(@ + 1, MaxInits)]

NavDues ==
  ({nav.pollDue} \cup nav.reinitDues \cup {nav.setupDues[i] : i \in 1..Len(nav.setupDues)})
    \ {0}

\* ------------------------------------------------------------------------
\* MessageTracker.initialize() with its await. The call tests isInitialized
\* and the page, then awaits waitForMessagingReady(), which looks for the
\* messaging container and polls the document every 100 ms until it finds
\* it; startTracking() and isInitialized = true run in the continuation.
\*   url        the path is /messaging or below
\*   container  the document holds a messaging container
\*   waiters    the initialize() calls that await: their next poll and the
\*              number of cleanup() calls before them
\*   hStarts    startTracking() runs since the last cleanup()
\*   hStale     startTracking() ran for a call that a cleanup() followed
MiIdle ==
  [url |-> FALSE, container |-> FALSE, isInitialized |-> FALSE, waiters |-> <<>>,
   calls |-> 0, cleanups |-> 0, hStarts |-> 0, hStale |-> FALSE]

MiUserInstants == {StartTime, StartTime + NavPollMs}
MiEnd == StartTime + NavPollMs + 2 * PollMs
OnInitPage == page = "msginit" /\ now \in MiUserInstants

\* the continuation of initialize(): startTracking(); isInitialized = true
MiStartTracking(m, gen) ==
  [m EXCEPT !.isInitialized = TRUE,
            !.hStarts = Min(@ + 1, MaxInits),
            !.hStale = @ \/ gen < m.cleanups]

\* initialize() up to its await. With the container in the document the
\* promise is resolved when it is made and the continuation runs as a
\* microtask of the same task; otherwise checkReady sets its first timer.
MiInitialize(m, t) ==
  IF m.isInitialized THEN m
  ELSE IF ~m.url /\ ~m.container THEN m
  ELSE IF m.container THEN MiStartTracking(m, m.cleanups)
  ELSE [m EXCEPT !.waiters = Append(@, [due |-> t + PollMs, gen |-> m.cleanups])]

\* MessageTracker.cleanup(): no pending checkReady timer is cancelled
MiCleanupTracker(m) ==
  [m EXCEPT !.isInitialized = FALSE, !.cleanups = @ + 1, !.hStarts = 0]

\* setupTracking() calling messageTracker.initialize()
MiSetupTracking ==
  /\ OnInitPage
  /\ mi.calls < MaxInits
  /\ mi' = [MiInitialize(mi, now) EXCEPT !.calls = @ + 1]
  /\ UNCHANGED <<now, page, sp, ex, nav, aInitialized, mVars, cVars, cmtVars, aCleanups, xVars>>

\* LinkedInAiAssistant.cleanup() calling messageTracker.cleanup()
MiCleanup ==
  /\ OnInitPage
  /\ mi.cleanups < MaxCleanups
  /\ mi' = MiCleanupTracker(mi)
  /\ UNCHANGED <<now, page, sp, ex, nav, aInitialized, mVars, cVars, cmtVars, aCleanups, xVars>>

\* the page renders its messaging container
MiRender ==
  /\ OnInitPage
  /\ ~mi.container
  /\ mi' = [mi EXCEPT !.container = TRUE]
  /\ UNCHANGED <<now, page, sp, ex, nav, aInitialized, mVars, cVars, cmtVars, aCleanups, xVars>>

\* a checkReady timer of waitForMessagingReady: resolve, or poll again (the
\* polls after MiEnd are not followed)
MiCheckReady(i) ==
  /\ i \in 1..Len(mi.waiters)
  /\ mi.waiters[i].due = now
  /\ mi' = IF mi.container
            THEN [MiStartTracking(mi, mi.waiters[i].gen)
                    EXCEPT !.waiters = RemoveAt(@, i)]
            ELSE IF now + PollMs <= MiEnd
            THEN [mi EXCEPT !.waiters[i].due = now + PollMs]
            ELSE [mi EXCEPT !.waiters = RemoveAt(@, i)]
  /\ UNCHANGED <<now, page, sp, ex, nav, aInitialized, mVars, cVars, cmtVars, aCleanups, xVars>>

MiDues == {mi.waiters[i].due : i \in 1..Len(mi.waiters)}

\* ------------------------------------------------------------------------
\* The single-phase ConnectionRequestTracker: handleModalSendClick extracts
\* the record, tests the key against lastRequestCapture and sends at once.
\*   last   lastRequestCapture
\*   runs   the runs of the handler that extracted a record: recipient, key,
\*          instant, and whether the record was handed to
\*          sendConnectionRequestToBackground
\*   purgeDue  the next run of the interval of setupCleanupInterval
SpIdle == [last |-> EmptyMap, runs |-> <<>>, clicks |-> 0, purgeDue |-> 0]
SpConstructed(t) == [SpIdle EXCEPT !.purgeDue = t + PurgeEveryMs]

UrlB == <<6>>
SpRecipients == {UrlA, UrlB}
SpUserInstants ==
  {StartTime, StartTime + 100, StartTime + DebounceMs, StartTime + 3 * PurgeEveryMs}

\* Date.prototype.toISOString: the instant to the millisecond, as a string
ToIsoString(t) == <<t>>

\* extractModalConnectionRequestData(): the record of the open modal, its
\* timestamp the capture time
extractModalConnectionRequestData(url, t) ==
  [recipientProfileUrl |-> url, timestamp |-> ToIsoString(t)]

\* `${connectionData.recipientProfileUrl}-${connectionData.timestamp}`
ModalCaptureKey(data) == data.recipientProfileUrl \o Dash \o data.timestamp

\* handleModalSendClick: no record, a duplicate, or set the key and send; a
\* failure of the send is caught and logged
SpModalSendClick(url, valid) ==
  /\ page = "single"
  /\ now \in SpUserInstants
  /\ sp.clicks < MaxClicks
  /\ LET data == extractModalConnectionRequestData(url, now)
         key == ModalCaptureKey(data)
         run == [url |-> url, key |-> key, at |-> now]
     IN sp' = IF ~valid
              THEN [sp EXCEPT !.clicks = @ + 1]
              ELSE IF IsDuplicate(sp.last, key, now)
              THEN [sp EXCEPT !.clicks = @ + 1,
                              !.runs = Append(@, run @@ [sent |-> FALSE])]
              ELSE [sp EXCEPT !.clicks = @ + 1,
                              !.last = MapSet(@, key, now),
                              !.runs = Append(@, run @@ [sent |-> TRUE])]
  /\ UNCHANGED <<now, page, mi, ex, nav, aInitialized, mVars, cVars, cmtVars, aCleanups, xVars>>

\* the callback of setupCleanupInterval of the single-phase tracker
SpPurge ==
  /\ sp.purgeDue # 0
  /\ sp.purgeDue = now
  /\ sp' = [sp EXCEPT !.last = PurgeMap(@, now), !.purgeDue = @ + PurgeEveryMs]
  /\ UNCHANGED <<now, page, mi, ex, nav, aInitialized, mVars, cVars, cmtVars, aCleanups, xVars>>

SpDues == IF sp.purgeDue # 0 THEN {sp.purgeDue} ELSE {}

\* ------------------------------------------------------------------------
\* The post id of a capture button.  A document is the sequence of its post
\* containers in document order, each with its data-id and data-urn
\* attributes (<<>>: absent or empty).
UrnA == <<"urn:li:activity", 1>>
UrnB == <<"urn:li:activity", 2>>
AttrValues == {<<>>, UrnA, UrnB}
RandomSuffixes == {1, 2}

\* getPostId: data-id, else data-urn, else
\* `post-${Date.now()}-${Math.random().toString(36).substr(2, 9)}`
getPostId(postContainer, t, rnd) ==
  IF postContainer.dataId # <<>> THEN postContainer.dataId
  ELSE IF postContainer.dataUrn # <<>> THEN postContainer.dataUrn
  ELSE <<"post", t, rnd>>

\* document.querySelector(`[data-id="${postId}"], [data-urn="${postId}"]`):
\* the first container in document order with one of the two attributes
\* equal to postId; 0 for null
QueryPostContainer(doc, postId) ==
  LET hit(i) == doc[i].dataId = postId \/ doc[i].dataUrn = postId
  IN IF \E i \in 1..Len(doc) : hit(i)
     THEN CHOOSE i \in 1..Len(doc) : hit(i) /\ \A j \in 1..(i - 1) : ~hit(j)
     ELSE 0

\* handlePostVisible injecting the button of the i-th post container:
\* postData.postId comes from getPostId and is handed to the button
InjectForPost(i, rnd) ==
  /\ page = "lookup"
  /\ ex.fn = "document"
  /\ i \in 1..Len(ex.doc)
  /\ ex' = [fn |-> "injected", doc |-> ex.doc, post |-> i,
            postId |-> getPostId(ex.doc[i], now, rnd)]
  /\ UNCHANGED <<now, page, sp, mi, nav, aInitialized, mVars, cVars, cmtVars, aCleanups, xVars>>

\* the click on that button: handleCapturePost looks the container up
CapturePostLookup ==
  /\ page = "lookup"
  /\ ex.fn = "injected"
  /\ ex' = [fn |-> "handleCapturePost", doc |-> ex.doc, post |-> ex.post,
            postId |-> ex.postId, found |-> QueryPostContainer(ex.doc, ex.postId)]
  /\ UNCHANGED <<now, page, sp, mi, nav, aInitialized, mVars, cVars, cmtVars, aCleanups, xVars>>

\* ------------------------------------------------------------------------
\* The conversation id of a pre-send snapshot.  ctx: what the composer sits
\* in: container (a thread container is found), dataId (its
\* data-conversation-id, data-thread-id or data-id; <<>>: none) and
\* urlThread (the thread id of the path; <<>>: none).
ConvB == <<8>>

\* getConversationId: the attribute of the container, else the thread id of
\* the URL, else `conv-${Date.now()}-${Math.random().toString(36).substr(2, 9)}`
getConversationId(ctx, t, rnd) ==
  IF ctx.container /\ ctx.dataId # <<>> THEN ctx.dataId
  ELSE IF ctx.urlThread # <<>> THEN ctx.urlThread
  ELSE <<"conv", t, rnd>>

\* one pre-send snapshot taken in the conversation of ex and its capture
\* key, as handleSendClick computes it; the second snapshot is kept beside
\* the first
ConvSnapshot(rnd) ==
  /\ page = "convkey"
  /\ ex.fn \in {"conversation", "one"}
  /\ LET key == CaptureKey(getConversationId(ex.ctx, now, rnd), ex.text)
     IN ex' = IF ex.fn = "conversation"
              THEN [fn |-> "one", ctx |-> ex.ctx, text |-> ex.text, key1 |-> key]
              ELSE [fn |-> "two", ctx |-> ex.ctx, text |-> ex.text, key1 |-> ex.key1,
                    key2 |-> key]
  /\ UNCHANGED <<now, page, sp, mi, nav, aInitialized, mVars, cVars, cmtVars, aCleanups, xVars>>

\* ================================================================ clock
PendingDues(caps) == {caps[i].due : i \in 1..Len(caps)}

Dues ==
  PendingDues(mCaps) \cup PendingDues(cCaps) \cup PendingDues(cmtCaps)
    \cup {mKb[i] : i \in 1..Len(mKb)}
    \cup (IF mPurgeDue # 0 THEN {mPurgeDue} ELSE {})
    \cup (IF cPurgeDue # 0 THEN {cPurgeDue} ELSE {})
    \cup PmDues \cup BtnDues \cup WaitDues \cup NavDues \cup MiDues \cup SpDues

\* the clock advances towards the instant t, but stops at the next due
\* callback; it does not move while a callback is due
Tick(t) ==
  /\ t > now
  /\ \A x \in Dues : x > now
  /\ LET before == {x \in Dues : x <= t}
     IN now' = IF before = {} THEN t
               ELSE CHOOSE x \in before : \A y \in before : x <= y
  /\ UNCHANGED <<page, sp, mi, ex, nav, aInitialized, mVars, cVars, cmtVars, aCleanups, xVars>>

\* ======================================================== specification
\* the trackers and the assistant after construction at time t, their purge
\* intervals next due at purgeDue
InitTrackers(t, purgeDue) ==
  /\ now = t
  /\ aInitialized = FALSE
  /\ aCleanups = 0
  /\ mInitialized = FALSE
  /\ mTracked = {}
  /\ mLast = EmptyMap
  /\ mPurgeDue = purgeDue
  /\ mObservers = 0
  /\ mKeydown = 0
  /\ mKb = <<>>
  /\ mEnters = 0
  /\ mDoc = {}
  /\ mListeners = [b \in SendButtons |-> 0]
  /\ mCaps = <<>>
  /\ mFired = NoFired
  /\ mAttempt = NoAttempt
  /\ mAccepted = EmptyMap
  /\ cInitialized = FALSE
  /\ cTrackedConnect = {}
  /\ cTrackedSend = {}
  /\ cLast = EmptyMap
  /\ cPurgeDue = purgeDue
  /\ cObservers = 0
  /\ cModalObserver = FALSE
  /\ cDocConnect = {}
  /\ cModal = {}
  /\ cConnListeners = [b \in ConnectButtons |-> 0]
  /\ cSendListeners = [s \in ModalSendButtons |-> 0]
  /\ cCaps = <<>>
  /\ cFired = NoFired
  /\ cDirect = NoClick
  /\ cAttempt = NoAttempt
  /\ cAccepted = EmptyMap
  /\ cmtListener = FALSE
  /\ cmtCaps = <<>>
  /\ cmtFired = NoFired
  /\ cmtHist = NoComments
  /\ cmtDoc = <<>>

Init ==
  /\ page \in Pages
  /\ InitTrackers(StartTime, StartTime + PurgeEveryMs)
  /\ sp = SpIdle
  /\ mi = MiIdle
  /\ pm = PmConstructed(FALSE, StartTime)
  /\ btn = BtnInit
  /\ wait = WaitInit
  /\ ex = ExIdle
  /\ nav = NavIdle

Next ==
  \/ \E t \in Instants : Tick(t)
  \/ AssistantSetupTracking
  \/ AssistantCleanup
  \/ \E b \in SendButtons : MsgDomAdd(b)
  \/ \E b \in SendButtons : MsgDomRemove(b)
  \/ MsgScan
  \/ \E b \in SendButtons, c \in Composers : MsgSendClick(b, c)
  \/ MsgKeydownEnter
  \/ \E c \in Composers : MsgKeyboardTimer(c)
  \/ \E i \in 1..MaxCaps, container \in BOOLEAN, sent \in SentMessages,
        r1 \in SinkResults, r2 \in SinkResults :
       MsgSettleTimer(i, container, sent, r1, r2)
  \/ MsgPurge
  \/ \E b \in ConnectButtons : ConnDomAdd(b)
  \/ \E b \in ConnectButtons : ConnDomRemove(b)
  \/ \E s \in ModalSendButtons, ready \in BOOLEAN : ConnDomOpenModal(s, ready)
  \/ ConnDomCloseModal
  \/ ConnScan
  \/ \E b \in ConnectButtons, card \in {Null, [card |-> "pymk"]}, valid \in BOOLEAN :
       ConnConnectClick(b, card, valid)
  \/ \E s \in ModalSendButtons, m \in ModalContents : ConnSendClick(s, m)
  \/ \E i \in 1..MaxCaps, r1 \in SinkResults, r2 \in SinkResults : ConnSettleTimer(i, r1, r2)
  \/ ConnPurge
  \/ \E t \in {<<>>, Short}, found \in BOOLEAN : CommentSubmitClick(t, found)
  \/ \E i \in 1..MaxCaps, r \in SinkResults : CommentSettleTimer(i, r)

\* every operation and every input, on a coarse clock
Spec == Init /\ [][Next]_vars

\* The dedup and purge timing: the same operations with a fine clock, a
\* recipient that is always found, a thread that shows no sent message and
\* a sink that answers success.
DedupComposers == [conv : Convs, rn : {"Ann"}, text : Texts, att : {FALSE}, ui : {DragHint}]
DedupModals == [url : Urls, rn : {"Ann"}, msg : Texts]

InitDedup == Init /\ page \in {"messaging", "profile"}

NextDedup ==
  \/ \E t \in DedupInstants : Tick(t)
  \/ AssistantSetupTracking
  \/ AssistantCleanup
  \/ \E b \in SendButtons : MsgDomAdd(b)
  \/ MsgScan
  \/ \E b \in SendButtons, c \in DedupComposers : MsgSendClick(b, c)
  \/ MsgKeydownEnter
  \/ \E c \in DedupComposers : MsgKeyboardTimer(c)
  \/ \E i \in 1..MaxCaps : MsgSettleTimer(i, TRUE, Null, "ok", "ok")
  \/ MsgPurge
  \/ \E s \in ModalSendButtons : ConnDomOpenModal(s, TRUE)
  \/ ConnScan
  \/ \E s \in ModalSendButtons, m \in DedupModals : ConnSendClick(s, m)
  \/ \E i \in 1..MaxCaps : ConnSettleTimer(i, "ok", "ok")
  \/ ConnPurge

SpecDedup == InitDedup /\ [][NextDedup]_vars


\* The PerformanceManager on a feed page that shows posts: scans, the
\* intersection observer, the process queue and the timers, with the
\* assistant's setup and cleanup around them.
InitPM ==
  /\ page = "posts"
  /\ InitTrackers(StartTime, StartTime + PurgeEveryMs)
  /\ sp = SpIdle
  /\ mi = MiIdle
  /\ \E hidden \in BOOLEAN : pm = PmConstructed(hidden, StartTime)
  /\ btn = BtnInit
  /\ wait = WaitInit
  /\ ex = ExIdle
  /\ nav = NavIdle

NextPM ==
  \/ \E t \in PmInstants : Tick(t)
  \/ AssistantSetupTracking
  \/ AssistantCleanup
  \/ \E e \in Posts : PmDomAddPost(e)
  \/ \E e \in Posts : PmDomRemovePost(e)
  \/ \E e \in Ifaces : PmDomAddInterface(e)
  \/ PmScroll
  \/ \E e \in Posts, isIntersecting \in BOOLEAN, ready \in ReadyStates :
       PmIntersect(e, isIntersecting, ready)
  \/ PmVisibilityChange
  \/ PmThrottleRelease
  \/ PmScrollRelease
  \/ PmDebouncedScanPosts
  \/ PmDebouncedScanInterfaces
  \/ PmResumeTimer
  \/ PmCleanupTimer

SpecPM == InitPM /\ [][NextPM]_vars

\* The cleanup pass on maps near the cap: the manager after a long scroll,
\* its interval due. Entry i of a map was seen Age(i) ms ago; the ages
\* repeat (ties), are permuted by the stride a, and some entries are stale,
\* exactly at the age limit, or detached.
TrackedFamily(n, a, stale, first, t) ==
  [i \in 1..n |->
     [el |-> first + i,
      lastSeen |-> t - (IF i \in stale THEN PmMaxAgeMs + i
                        ELSE IF i = 3 THEN PmMaxAgeMs
                        ELSE ((i * a) % 7) * 1000),
      hasButton |-> i % 2 = 0]]
FamilySizes == (MaxButtons - 1)..(MaxButtons + MaxOver)
StaleSets == {{}, {2}, {2, 5}}
DetachedSets == {{}, {4}}
CleanupStart == StartTime + 11 * CleanupEveryMs

InitCleanup ==
  /\ page = "cleanup"
  /\ InitTrackers(CleanupStart, StartTime + 2 * PurgeEveryMs)
  /\ sp = SpIdle
  /\ mi = MiIdle
  /\ \E n \in FamilySizes, a \in {1, 3, 5}, stale \in StaleSets, det \in DetachedSets,
        m \in FamilySizes, istale \in {{}, {2}} :
       pm = [PmConstructed(FALSE, CleanupStart) EXCEPT
               !.observer = TRUE, !.started = TRUE,
               !.onPostVisible = TRUE, !.onInterfaceVisible = TRUE,
               !.docPosts = (1..n) \ det,
               !.docIfaces = {100 + i : i \in 1..m},
               !.managedPosts = TrackedFamily(n, a, stale, 0, CleanupStart),
               !.managedInterfaces =
                  [i \in 1..m |->
                     [el |-> TrackedFamily(m, 3, istale, 100, CleanupStart)[i].el,
                      lastSeen |-> TrackedFamily(m, 3, istale, 100, CleanupStart)[i].lastSeen]],
               !.cleanupDue = CleanupStart]
  /\ btn = BtnInit
  /\ wait = WaitInit
  /\ ex = ExIdle
  /\ nav = NavIdle

NextCleanup ==
  \/ Tick(CleanupStart + CleanupEveryMs)
  \/ \E e \in Posts : PmDomRemovePost(e)
  \/ PmCleanupTimer

SpecCleanup == InitCleanup /\ [][NextCleanup]_vars

\* The capture button of one post and the handleCapturePost calls it makes.
InitButton ==
  /\ page = "button"
  /\ InitTrackers(StartTime, StartTime + PurgeEveryMs)
  /\ sp = SpIdle
  /\ mi = MiIdle
  /\ pm = PmConstructed(FALSE, StartTime)
  /\ btn = BtnInit
  /\ wait = WaitInit
  /\ ex = ExIdle
  /\ nav = NavIdle

NextButton ==
  \/ \E t \in BtnInstants : Tick(t)
  \/ \E found \in BOOLEAN, validPost \in BOOLEAN : BtnClick(found, validPost)
  \/ \E r \in SinkResults : BtnSinkAnswer(r)
  \/ \E timer \in btn.timers : BtnTimer(timer)

SpecButton == InitButton /\ [][NextButton]_vars

\* The wait for the invite modal: the modal node arrives before its
\* textarea, which may come late or never.
InitWait ==
  /\ page = "modalwait"
  /\ InitTrackers(StartTime, StartTime + PurgeEveryMs)
  /\ sp = SpIdle
  /\ mi = MiIdle
  /\ pm = PmConstructed(FALSE, StartTime)
  /\ btn = BtnInit
  /\ wait = WaitInit
  /\ ex = ExIdle
  /\ nav = NavIdle

NextWait ==
  \/ \E t \in WaitInstants : Tick(t)
  \/ AssistantSetupTracking
  \/ AssistantCleanup
  \/ \E s \in ModalSendButtons : WaitModalAppears(s)
  \/ WaitTextAreaAppears
  \/ WaitModalCloses
  \/ \E i \in 1..MaxWaits : WaitPoll(i)
  \/ \E i \in 1..MaxWaits : WaitDeadline(i)

SpecWait == InitWait /\ [][NextWait]_vars

\* ------------------------------------------------------------------------
\* The sanitizers: every string over the alphabet up to MaxLen characters,
\* and one sanitizer applied to it once and twice.
Alphabet ==
  {Letter, Space, Bom, Zwsp, Lt, Gt, DragHere, SelectFile, WriteAMessage, OpenEmoji}
Strings == UNION {[1..n -> Alphabet] : n \in 0..MaxLen}

InitSanitize ==
  /\ page = "sanitize"
  /\ InitTrackers(StartTime, StartTime + PurgeEveryMs)
  /\ sp = SpIdle
  /\ mi = MiIdle
  /\ pm = PmConstructed(FALSE, StartTime)
  /\ btn = BtnInit
  /\ wait = WaitInit
  /\ \E s \in Strings : ex = [fn |-> "string", s |-> s]
  /\ nav = NavIdle

NextSanitize ==
  \/ ApplySanitizeText
  \/ ApplySanitizeConnectionText
  \/ ApplySanitizeMessageText

SpecSanitize == InitSanitize /\ [][NextSanitize]_vars

\* ------------------------------------------------------------------------
\* The post extractor: every container of up to MaxNodes media nodes, and
\* extractPostData applied to it.
ImageMatches ==
  {{ImageSelectors[1]}, {ImageSelectors[6]}, {ImageSelectors[1], ImageSelectors[6]}}
ImgNodes ==
  [kind : {"img"}, src : {"", "data:image/png", "https://media.licdn.com/i"},
   matched : ImageMatches]
VideoNodes ==
  [kind : {"video"}, src : {"", "v.mp4"}, source : {"", "s.mp4"},
   matched : {{VideoSelectors[1]}, {VideoSelectors[1], VideoSelectors[2]}}]
PreviewNodes == [kind : {"preview"}, poster : {"", "p.jpg"}]
DocNodes ==
  {d \in [kind : {"doc"}, hasTitle : BOOLEAN, title : {"", "Report"},
          href : {"", "https://www.linkedin.com/doc"},
          matched : {{DocumentSelectors[1]}, {DocumentSelectors[1], DocumentSelectors[2]}}] :
     ~d.hasTitle => d.title = ""}
ArticleNodes == [kind : {"article"}, title : {"", "Title"}, url : {"", "https://a.example/"}]
CarouselNodes == [kind : {"carousel"}, images : 0..1]
PollNodes == [kind : {"poll"}, question : {"", "Q"}, options : 0..1]
MediaNodes ==
  ImgNodes \cup VideoNodes \cup PreviewNodes \cup DocNodes \cup ArticleNodes
    \cup CarouselNodes \cup PollNodes
Containers ==
  [text : {<<>>, Short}, author : Names,
   nodes : UNION {[1..n -> MediaNodes] : n \in 0..MaxNodes}]

InitExtract ==
  /\ page = "extract"
  /\ InitTrackers(StartTime, StartTime + PurgeEveryMs)
  /\ sp = SpIdle
  /\ mi = MiIdle
  /\ pm = PmConstructed(FALSE, StartTime)
  /\ btn = BtnInit
  /\ wait = WaitInit
  /\ \E c \in Containers : ex = [fn |-> "container", container |-> c]
  /\ nav = NavIdle

NextExtract == ExtractPost

SpecExtract == InitExtract /\ [][NextExtract]_vars

\* ------------------------------------------------------------------------
\* The send handlers of a composer, with the history of the pre-send
\* extraction.
InitPreSend ==
  /\ page = "compose"
  /\ InitTrackers(StartTime, StartTime + PurgeEveryMs)
  /\ sp = SpIdle
  /\ mi = MiIdle
  /\ pm = PmConstructed(FALSE, StartTime)
  /\ btn = BtnInit
  /\ wait = WaitInit
  /\ ex = ExIdle
  /\ nav = NavIdle

NextPreSend ==
  \/ \E t \in Instants : Tick(t)
  \/ AssistantSetupTracking
  \/ \E b \in SendButtons : MsgDomAdd(b)
  \/ MsgScan
  \/ \E b \in SendButtons, c \in Composers : MsgSendClick(b, c)
  \/ MsgKeydownEnter
  \/ \E c \in Composers : MsgKeyboardTimer(c)
  \/ \E i \in 1..MaxCaps, container \in BOOLEAN, sent \in SentMessages,
        r1 \in SinkResults, r2 \in SinkResults :
       MsgSettleTimer(i, container, sent, r1, r2)

SpecPreSend == InitPreSend /\ [][NextPreSend]_vars

\* ------------------------------------------------------------------------
\* The comment submit handler, with the history of its runs.
CommentEditors == {<<>>, <<Space>>, Short, <<Space>> \o Short}
CommentInstants == {StartTime + 100, StartTime + DebounceMs}
CommentTexts == {Short, <<Letter, Letter>>}
CommentAuthors == {"me", "other"}

InitComment ==
  /\ page = "comments"
  /\ InitTrackers(StartTime, StartTime + PurgeEveryMs)
  /\ sp = SpIdle
  /\ mi = MiIdle
  /\ pm = PmConstructed(FALSE, StartTime)
  /\ btn = BtnInit
  /\ wait = WaitInit
  /\ ex = ExIdle
  /\ nav = NavIdle

NextComment ==
  \/ \E t \in CommentInstants : Tick(t)
  \/ AssistantSetupTracking
  \/ AssistantCleanup
  \/ \E e \in CommentEditors, found \in BOOLEAN : CommentSubmitClick(e, found)
  \/ \E text \in CommentTexts, a \in CommentAuthors, first \in BOOLEAN :
       CommentNodeRendered(text, a, first)
  \/ \E i \in 1..MaxCaps, r \in SinkResults : CommentSettleTimer(i, r)

SpecComment == InitComment /\ [][NextComment]_vars

\* ------------------------------------------------------------------------
\* The navigation script: the start-up, the URL poll and the timers they
\* set, on a page that changes its URL up to MaxUrlChanges times.
InitNav ==
  /\ page = "navigation"
  /\ InitTrackers(StartTime, StartTime + PurgeEveryMs)
  /\ sp = SpIdle
  /\ mi = MiIdle
  /\ pm = PmConstructed(FALSE, StartTime)
  /\ btn = BtnInit
  /\ wait = WaitInit
  /\ ex = ExIdle
  /\ \E loading \in BOOLEAN : nav = NavLoaded(loading, StartTime)

NextNav ==
  \/ \E t \in NavUserInstants \cup {NavEnd} : Tick(t)
  \/ NavUrlChange
  \/ NavDomContentLoaded
  \/ NavPoll
  \/ NavReinit
  \/ \E i \in 1..(MaxUrlChanges + 2) : NavSetupTimer(i)

SpecNav == InitNav /\ [][NextNav]_vars

\* ------------------------------------------------------------------------
\* MessageTracker.initialize() and cleanup() called while the page renders.
InitMsgInit ==
  /\ page = "msginit"
  /\ InitTrackers(StartTime, StartTime + PurgeEveryMs)
  /\ sp = SpIdle
  /\ pm = PmConstructed(FALSE, StartTime)
  /\ btn = BtnInit
  /\ wait = WaitInit
  /\ ex = ExIdle
  /\ nav = NavIdle
  /\ \E u \in BOOLEAN : mi = [MiIdle EXCEPT !.url = u]

NextMsgInit ==
  \/ \E t \in MiUserInstants \cup {MiEnd} : Tick(t)
  \/ MiSetupTracking
  \/ MiCleanup
  \/ MiRender
  \/ \E i \in 1..MaxInits : MiCheckReady(i)

SpecMsgInit == InitMsgInit /\ [][NextMsgInit]_vars

\* ------------------------------------------------------------------------
\* The modal send button of the single-phase tracker, clicked up to
\* MaxClicks times.
InitSingle ==
  /\ page = "single"
  /\ InitTrackers(StartTime, StartTime + PurgeEveryMs)
  /\ pm = PmConstructed(FALSE, StartTime)
  /\ btn = BtnInit
  /\ wait = WaitInit
  /\ ex = ExIdle
  /\ nav = NavIdle
  /\ mi = MiIdle
  /\ sp = SpConstructed(StartTime)

NextSingle ==
  \/ \E t \in SpUserInstants : Tick(t)
  \/ SpPurge
  \/ MsgPurge
  \/ ConnPurge
  \/ \E u \in SpRecipients, valid \in BOOLEAN : SpModalSendClick(u, valid)

SpecSingle == InitSingle /\ [][NextSingle]_vars

\* ------------------------------------------------------------------------
\* The MutationObserver of startObserving on a feed page: mutations of the
\* three kinds, the tab hidden and shown, and the debounced scans.
InitObserve ==
  /\ page = "observe"
  /\ InitTrackers(StartTime, StartTime + PurgeEveryMs)
  /\ sp = SpIdle
  /\ mi = MiIdle
  /\ pm = PmConstructed(FALSE, StartTime)
  /\ btn = BtnInit
  /\ wait = WaitInit
  /\ ex = ExIdle
  /\ nav = NavIdle

NextObserve ==
  \/ \E t \in ObsUserInstants \cup {StartTime + 3 * ScanDebounceMs} : Tick(t)
  \/ AssistantSetupTracking
  \/ \E e \in Posts \cup Ifaces, kind \in MutationKinds, self \in BOOLEAN :
       PmMutation(e, kind, self)
  \/ \E e \in Posts : PmDomRemovePost(e)
  \/ PmVisibilityChange
  \/ PmResumeTimer
  \/ PmDebouncedScanPosts
  \/ PmDebouncedScanInterfaces

SpecObserve == InitObserve /\ [][NextObserve]_vars

\* ------------------------------------------------------------------------
\* A button injected for one post of a document of up to MaxDocPosts post
\* containers, then clicked.
PostContainers == [dataId : AttrValues, dataUrn : AttrValues]
Documents == UNION {[1..n -> PostContainers] : n \in 1..MaxDocPosts}

InitLookup ==
  /\ page = "lookup"
  /\ InitTrackers(StartTime, StartTime + PurgeEveryMs)
  /\ sp = SpIdle
  /\ mi = MiIdle
  /\ pm = PmConstructed(FALSE, StartTime)
  /\ btn = BtnInit
  /\ wait = WaitInit
  /\ \E d \in Documents : ex = [fn |-> "document", doc |-> d]
  /\ nav = NavIdle

NextLookup ==
  \/ \E i \in 1..MaxDocPosts, rnd \in RandomSuffixes : InjectForPost(i, rnd)
  \/ CapturePostLookup

SpecLookup == InitLookup /\ [][NextLookup]_vars

\* ------------------------------------------------------------------------
\* The settle timer of a message capture in a thread that shows, as its
\* latest sent message, the message of the click or another one (an earlier
\* message, or the message of a later click).
OtherText == <<Letter, Letter>>
ThreadMessages ==
  SentMessages \cup [conv : Convs, rn : Names, text : {OtherText}, att : {0}]

InitThread ==
  /\ page = "thread"
  /\ InitTrackers(StartTime, StartTime + PurgeEveryMs)
  /\ sp = SpIdle
  /\ mi = MiIdle
  /\ pm = PmConstructed(FALSE, StartTime)
  /\ btn = BtnInit
  /\ wait = WaitInit
  /\ ex = ExIdle
  /\ nav = NavIdle

NextThread ==
  \/ \E t \in Instants : Tick(t)
  \/ AssistantSetupTracking
  \/ \E b \in SendButtons : MsgDomAdd(b)
  \/ MsgScan
  \/ \E b \in SendButtons, c \in Composers : MsgSendClick(b, c)
  \/ \E i \in 1..MaxCaps, container \in BOOLEAN, sent \in ThreadMessages,
        r1 \in SinkResults, r2 \in SinkResults :
       MsgSettleTimer(i, container, sent, r1, r2)

SpecThread == InitThread /\ [][NextThread]_vars

\* ------------------------------------------------------------------------
\* Two pre-send snapshots with the same text in one conversation.
ConvContexts == [container : BOOLEAN, dataId : {<<>>, ConvA}, urlThread : {<<>>, ConvB}]

InitConvKey ==
  /\ page = "convkey"
  /\ InitTrackers(StartTime, StartTime + PurgeEveryMs)
  /\ sp = SpIdle
  /\ mi = MiIdle
  /\ pm = PmConstructed(FALSE, StartTime)
  /\ btn = BtnInit
  /\ wait = WaitInit
  /\ \E c \in ConvContexts, text \in Texts \ {<<>>} :
       ex = [fn |-> "conversation", ctx |-> c, text |-> text]
  /\ nav = NavIdle

NextConvKey ==
  \/ Tick(StartTime + 100)
  \/ \E rnd \in RandomSuffixes : ConvSnapshot(rnd)

SpecConvKey == InitConvKey /\ [][NextConvKey]_vars

PendingUnique(caps) ==
  \A i, j \in 1..Len(caps) :
    i # j /\ caps[i].key = caps[j].key => caps[i].gen # caps[j].gen

\* the dedup rule for the last attempt a of a tracker, within one epoch
\* (no cleanup() between the two attempts)
DedupInEpoch(a, caps) ==
  a.valid =>
    /\ a.hasPrev /\ a.prevGen = a.gen /\ a.at - a.prevAt < DebounceMs => ~a.accepted
    /\ ~a.accepted => a.hasPrev /\ a.at - a.prevAt < DebounceMs
    /\ a.accepted /\ a.at = now =>
         \E i \in 1..Len(caps) : caps[i].key = a.key /\ caps[i].at = a.at

C2_AtMostOneSinkCall ==
  /\ mFired.valid => Len(mFired.sink) <= 1
  /\ cFired.valid => Len(cFired.sink) <= 1

\* C3: when the second phase of a message capture fails (no thread
\* container, no sent message, invalid re-extraction) the pre-send snapshot
\* is delivered, the capture is not dropped and nothing is thrown.
C3_FallbackDelivered ==
  mFired.valid /\ mFired.phase2 # "confirmed" =>
    /\ Len(mFired.sink) >= 1
    /\ \A i \in 1..Len(mFired.sink) : mFired.sink[i] = mFired.pre
    /\ ~mFired.threw

\* C4: every record MessageTracker hands to the sink has a recipient name
\* and either message text or an attachment.
C4_SinkRecordsValid ==
  mFired.valid =>
    \A i \in 1..Len(mFired.sink) :
      /\ mFired.sink[i].rn # ""
      /\ mFired.sink[i].text # <<>> \/ mFired.sink[i].att > 0

\* C5: a settle timer scheduled before cleanup() delivers nothing when it
\* fires after it (message, connection request and comment timers).
C5_LateTimerSilent ==
  /\ mFired.valid /\ mFired.late => mFired.sink = <<>>
  /\ cFired.valid /\ cFired.late => cFired.sink = <<>>
  /\ cmtFired.valid /\ cmtFired.late => cmtFired.sink = <<>>

\* C6: once cleanup() has returned and until initialize() is called, the
\* tracked sets and capture maps are empty, no listener of the trackers is
\* attached, no mutation observer is connected and no interval is running.
C6_CleanupDetaches ==
  aCleanups > 0 /\ ~aInitialized =>
    /\ mTracked = {} /\ mLast = EmptyMap
    /\ \A b \in SendButtons : mListeners[b] = 0
    /\ mKeydown = 0 /\ mObservers = 0 /\ mPurgeDue = 0
    /\ cTrackedConnect = {} /\ cTrackedSend = {} /\ cLast = EmptyMap
    /\ \A b \in ConnectButtons : cConnListeners[b] = 0
    /\ \A s \in ModalSendButtons : cSendListeners[s] = 0
    /\ cObservers = 0 /\ ~cModalObserver /\ cPurgeDue = 0

\* C7: each send or connect button carries at most one click listener of
\* its tracker at any time.
C7_OneListenerPerButton ==
  /\ \A b \in SendButtons : mListeners[b] <= 1
  /\ \A b \in ConnectButtons : cConnListeners[b] <= 1
  /\ \A s \in ModalSendButtons : cSendListeners[s] <= 1

\* C8: two clicks within 100 ms on the same direct connect button make
\* exactly one delivery call to the sink.
C8_DoubleClickOneDelivery ==
  /\ cDirect.valid /\ cDirect.hasPrev
  /\ cDirect.direct /\ cDirect.prevDirect
  /\ cDirect.at - cDirect.prevAt <= 100
  => cDirect.calls + cDirect.prevCalls = 1

\* C9: an accepted modal send click ends, when its settle timer fires, in
\* exactly one outcome: the confirmed record or the pre-send fallback is
\* delivered, never both.
C9_ModalOneOutcome ==
  cFired.valid => Len(cFired.sink) = 1

PurgeBound(map, due) ==
  due # 0 =>
    /\ due - PurgeEveryMs = now => \A k \in DOMAIN map : now - map[k] <= MaxAgeMs
    /\ \A k \in DOMAIN map : now - map[k] <= MaxAgeMs + PurgeEveryMs

PassStep == pm.cleanupDue = now /\ pm'.cleanupDue = now + CleanupEveryMs

\* of the entries that are attached and not stale, the pass evicts the
\* Cardinality - MaxButtons oldest when there are more than MaxButtons
EvictsOldest(before, doc, t, after) ==
  LET rem == {before[i] : i \in {j \in 1..Len(before) :
                 before[j].el \in doc /\ t - before[j].lastSeen <= PmMaxAgeMs}}
      kept == {after[i] : i \in 1..Len(after)}
  IN Cardinality(rem) > MaxButtons =>
       /\ kept \subseteq rem
       /\ Cardinality(kept) = Len(after)
       /\ Cardinality(rem \ kept) = Cardinality(rem) - MaxButtons
       /\ \A e \in rem \ kept, k \in kept : e.lastSeen <= k.lastSeen

\* C11: in a cleanup pass, when n > 50 entries of the post map (of the
\* interface map) are left after the detached and the stale entries were
\* removed, exactly n - 50 of them are evicted and no evicted entry has a
\* larger lastSeen than an entry that is kept.
C11_EvictsOldestOverCap ==
  [][PassStep =>
       /\ EvictsOldest(pm.managedPosts, pm.docPosts, now, pm'.managedPosts)
       /\ EvictsOldest(pm.managedInterfaces, pm.docIfaces, now, pm'.managedInterfaces)]_vars

\* a pass that found 51 posts left and evicted one, and evicted interfaces
C11_Witness ==
  /\ pm.hPass.ran
  /\ pm.hPass.evictedPosts = 1
  /\ pm.hPass.evictedIfaces > 0

CleanMap(map, doc, t) ==
  /\ Len(map) <= MaxButtons
  /\ \A i \in 1..Len(map) : map[i].el \in doc /\ t - map[i].lastSeen <= PmMaxAgeMs

\* C12: right after a cleanup pass no tracked post or interface is detached
\* from the document, none has a lastSeen more than 5 minutes old, and each
\* map holds at most 50 entries.
C12_CleanAfterPass ==
  [][PassStep =>
       /\ CleanMap(pm'.managedPosts, pm'.docPosts, now')
       /\ CleanMap(pm'.managedInterfaces, pm'.docIfaces, now')]_vars

\* a pass that met detached entries, stale entries and a map over the cap
C12_Witness ==
  /\ pm.hPass.ran
  /\ pm.cleanupDue = now + CleanupEveryMs
  /\ pm.hPass.detached > 0
  /\ pm.hPass.stale > 0
  /\ pm.hPass.evictedPosts + pm.hPass.evictedIfaces > 0

\* C16: between the scan that first observes a feed post and the post being
\* marked processed, onPostVisible is called for it at most once, and the
\* post is on the process queue at most once.
C16_OneCallbackPerPost ==
  \A e \in Posts :
    /\ pm.hCalls[e] <= 1
    /\ Cardinality({i \in 1..Len(pm.processQueue) : pm.processQueue[i] = e}) <= 1

\* C17: a run of the queue processor hands at most 5 elements to
\* onPostVisible, and while elements are queued the throttle timer is
\* pending, so that a run on the throttled cadence is still to come without
\* a further intersection entry.
C17_QueueDrainsOnCadence ==
  /\ pm.hBatch <= BatchSize
  /\ pm.processQueue # <<>> => pm.throttleDue # 0

\* C18: while document.hidden holds no scan has added an entry to a tracked
\* map and no run of the queue processor has called onPostVisible.
C18_NoWorkWhileHidden == ~pm.hHiddenWork

\* C19: once the resume timer of a hidden-to-visible change has fired with
\* the tab still visible and no scan timer is left pending, the posts and
\* the interfaces that were in the document are tracked, that is, both
\* rescans have run.
C19_ResumeRescansBoth ==
  (pm.hResumed /\ pm.resumeDues = {} /\ pm.debPostsDue = 0 /\ pm.debIfacesDue = 0) =>
    /\ \A e \in pm.docPosts : Has(pm.managedPosts, e)
    /\ \A e \in pm.docIfaces : Has(pm.managedInterfaces, e)

\* C13: a settle-timer callback of the message flow or of the modal
\* connection flow never ends with an error thrown out of it, whatever the
\* sink answers.
C13_NoEscapingFailure ==
  /\ mFired.valid => ~mFired.threw
  /\ cFired.valid => ~cFired.threw

\* C14: handleCapturePost rejects exactly when the post container is not
\* found, the extracted post fails validation or the sink reports failure,
\* and the attempt that was rejected left the button in state 'error' (a
\* resolved one in 'success').
C14_RejectsExactlyOnFailure ==
  btn.hLast.valid =>
    /\ btn.hLast.outcome = "rejected" <=>
         (~btn.hLast.found \/ ~btn.hLast.validPost \/ btn.hLast.sink = "fail")
    /\ btn.hLast.outcome = "rejected" => btn.hLast.state = "error"
    /\ btn.hLast.outcome = "resolved" => btn.hLast.state = "success"

\* an attempt rejected by the sink's failure alone
C14_Witness ==
  /\ btn.hLast.valid
  /\ btn.hLast.found
  /\ btn.hLast.validPost
  /\ btn.hLast.sink = "fail"
  /\ btn.state = "error"

\* C15: a button that has reached 'captured' is 'captured', and no 3 s reset
\* timer has fired on a button that was 'loading', 'success' or 'captured'.
C15_CapturedIsFinal ==
  /\ btn.hCaptured => btn.state = "captured"
  /\ ~btn.hStale

\* C20: a call of waitForConnectionModalReady is settled 10 s after it was
\* made, and a settled call has no poll timer pending.
C20_WaitEndsAtDeadline ==
  \A i \in 1..Len(wait.calls) :
    /\ wait.calls[i].status = "pending" => now <= wait.calls[i].start + ModalTimeoutMs
    /\ wait.calls[i].status # "pending" => wait.calls[i].poll = 0

\* C21 amended: determineMediaType returns 'text' for the empty list, the
\* type of the item for a list of one item and 'mixed' for every list of
\* two or more items; so it returns 'text' exactly when the list is empty
\* or holds one text item, and another item type only for a list of one.
C21_MediaTypeByLength ==
  ex.fn = "extractPostData" =>
    /\ Len(ex.content) = 0 => ex.mediaType = "text"
    /\ Len(ex.content) = 1 => ex.mediaType = ex.content[1].type
    /\ Len(ex.content) >= 2 => ex.mediaType = "mixed"
    /\ ex.mediaType = "text" <=>
         \/ Len(ex.content) = 0
         \/ Len(ex.content) = 1 /\ ex.content[1].type = "text"
    /\ ex.mediaType \in ItemTypes \ {"text"} => Len(ex.content) = 1

\* C21 witness: a post whose content is one text item was given the media
\* type 'text'
C21_Witness ==
  /\ ex.fn = "extractPostData"
  /\ Len(ex.content) = 1
  /\ ex.content[1].type = "text"
  /\ ex.mediaType = "text"

\* C21 as stated: determineMediaType returns 'text' if and only if the
\* list is empty, the type of the single item if and only if the list has
\* one item, and 'mixed' for every list of two or more items.
C21_TextIffEmpty ==
  ex.fn = "extractPostData" =>
    /\ ex.mediaType = "text" <=> Len(ex.content) = 0
    /\ Len(ex.content) = 1 => ex.mediaType = ex.content[1].type
    /\ ex.mediaType \in ItemTypes \ {"text"} => Len(ex.content) = 1
    /\ Len(ex.content) >= 2 => ex.mediaType = "mixed"

\* C22: every sanitizer gives the same string when applied to its own
\* result, and sanitizeMessageText turns the placeholder "Write a message..."
\* into the empty string.
C22_SanitizersIdempotent ==
  /\ ex.fn \in {"sanitizeText", "sanitizeConnectionText", "sanitizeMessageText"} =>
       ex.twice = ex.once
  /\ ex.fn = "sanitizeMessageText" /\ ex.s = <<WriteAMessage>> => ex.once = <<>>

\* the composer shows the placeholder only: an empty text input, no
\* attachment, and "Drag your file here. Select your file" around it
PlaceholderOnly(c) ==
  c # Null /\ c.text = <<>> /\ ~c.att /\ c.ui = DragHint

CountType(content, type) == Len(SelectSeq(content, LAMBDA it : it.type = type))

\* the number of nodes of one kind in a container
CountKind(container, kind) == Len(SelectSeq(container.nodes, LAMBDA n : n.kind = kind))

\* C25: an element matched by several selectors of one extraction step
\* gives one item: the content list holds at most one image item per <img>
\* and at most one video item per <video> or video preview.
C25_OneItemPerElement ==
  ex.fn = "extractPostData" =>
    /\ CountType(ex.content, "image") <= CountKind(ex.container, "img")
    /\ CountType(ex.content, "video") <=
         CountKind(ex.container, "video") + CountKind(ex.container, "preview")

\* C26: every item of the content list extractPostData returns has a
\* non-empty data field.
C26_DataNonEmpty ==
  ex.fn = "extractPostData" /\ ex.out # Null =>
    \A i \in 1..Len(ex.out.content) :
      IF ex.out.content[i].type = "text"
      THEN ex.out.content[i].data # <<>>
      ELSE ex.out.content[i].data # ""

\* the purge pass keeps every entry that is not older than 10 minutes, with
\* its key and timestamp, and adds none
KeepsFresh(before, after, t) ==
  /\ DOMAIN after \subseteq DOMAIN before
  /\ \A k \in DOMAIN before :
       t - before[k] <= MaxAgeMs => k \in DOMAIN after /\ after[k] = before[k]

\* C27: a pass of a tracker's purge interval removes only entries older than
\* 10 minutes from the recent-capture map, and leaves the tracked-button
\* sets as they are.
C27_PurgeKeepsFresh ==
  [][/\ mPurgeDue = now /\ mPurgeDue' = now + PurgeEveryMs =>
          KeepsFresh(mLast, mLast', now) /\ mTracked' = mTracked
     /\ cPurgeDue = now /\ cPurgeDue' = now + PurgeEveryMs =>
          /\ KeepsFresh(cLast, cLast', now)
          /\ cTrackedConnect' = cTrackedConnect
          /\ cTrackedSend' = cTrackedSend]_vars

\* C27 witness: a purge pass of the MessageTracker has just run and the
\* entry of a capture made less than 10 minutes before is still in the map,
\* with the send button still tracked
C27_Witness ==
  /\ mPurgeDue # 0
  /\ mPurgeDue - PurgeEveryMs = now
  /\ mTracked # {}
  /\ \E k \in DOMAIN mLast : now - mLast[k] <= MaxAgeMs /\ now - mLast[k] > 0

\* C28: of two submit clicks with the same comment text less than 5 s
\* apart, the sink takes one record only.
C28_OneDeliveryPerComment ==
  \A i, j \in 1..Len(cmtHist.sunk) :
    i < j /\ cmtHist.sunk[i].text = cmtHist.sunk[j].text =>
      cmtHist.sunk[j].at - cmtHist.sunk[i].at >= DebounceMs

\* the navigation script at rest: the URL the poll knows is the URL of the
\* page, the document is loaded, and no start-up or re-initialization
\* timer is pending
NavQuiet ==
  /\ nav.href = nav.currentUrl
  /\ ~nav.loading
  /\ nav.dcl = 0
  /\ nav.reinitDues = {}
  /\ nav.setupDues = <<>>

\* C29: whatever the URL changes, setupTracking never runs twice without a
\* cleanup() in between, and once the URL has stopped changing and the
\* timers have run the assistant is initialized, with setupTracking run
\* exactly once since the last cleanup().
C29_SetupOncePerCleanup ==
  /\ nav.hSetups <= 1
  /\ NavQuiet => aInitialized /\ nav.hSetups = 1

\* a step that runs scanForPosts to its end: the throttled scan of a scroll
\* event or the debounced scan of a mutation
ScanPostsStep ==
  /\ pm.observer /\ pm.isTabVisible
  /\ \/ pm.scrollDue = 0 /\ pm'.scrollDue = now + ScrollThrottleMs
     \/ pm.debPostsDue = now /\ pm'.debPostsDue = 0

\* C30: a scan that finds a feed post it tracks already sets the lastSeen of
\* that post to the current time.
C30_RescanRefreshesLastSeen ==
  [][ScanPostsStep =>
       \A e \in pm.docPosts :
         Has(pm.managedPosts, e) => Entry(pm'.managedPosts, e).lastSeen = now]_vars

\* C40: at most one onCapture call of the button is in flight at any time.
C40_OneCaptureInFlight ==
  btn.pending <= 1

\* C39: once a cleanup has been followed by a new initialize, the periodic
\* purge of the recent-capture caches is armed again: an initialized tracker
\* always has its purge interval pending.
C39_PurgeRearmed ==
  /\ mInitialized => mPurgeDue # 0
  /\ cInitialized => cPurgeDue # 0

\* C38: within one initialize/cleanup cycle startTracking() runs at most once,
\* and it never runs for an initialize() call that a cleanup() has followed.
C38_StartsOncePerCycle ==
  /\ mi.hStarts <= 1
  /\ ~mi.hStale

\* C31: every record handed to the comment callback carries the text of its
\* click and is handed over 200 ms after it; its author comes from a comment
\* node with that text that was rendered after the click, and from the
\* logged-in user only when the document holds no node with that text.
C31_AuthorOfNewComment ==
  \A i \in 1..Len(cmtHist.calls) :
    LET c == cmtHist.calls[i]
    IN /\ c.firedAt = c.at + CommentSettleMs
       /\ c.text # <<>>
       /\ c.by.from = "node" => c.by.rendered >= c.click

\* C32: of two clicks on the modal send button of the single-phase tracker
\* for the same recipient less than 5000 ms apart, the second computes the
\* key of the first and is not sent.
C32_SecondClickDropped ==
  \A i, j \in 1..Len(sp.runs) :
    /\ i < j
    /\ sp.runs[i].url = sp.runs[j].url
    /\ sp.runs[i].sent
    /\ sp.runs[j].at - sp.runs[i].at < DebounceMs
    => /\ sp.runs[j].key = sp.runs[i].key
       /\ ~sp.runs[j].sent

\* C33: after a mutation that adds a node of a post or of an interface while
\* the observer is installed and the tab visible, the matching rescan is
\* pending for 1000 ms after the mutation; a mutation that adds no such node
\* leaves both rescan timers as they were.
C33_RescanAfterMutation ==
  /\ pm.hMut.kind = "post" /\ pm.hMut.live /\ now < pm.hMut.at + ScanDebounceMs =>
       pm.debPostsDue = pm.hMut.at + ScanDebounceMs
  /\ pm.hMut.kind = "interface" /\ pm.hMut.live /\ now < pm.hMut.at + ScanDebounceMs =>
       pm.debIfacesDue = pm.hMut.at + ScanDebounceMs
  /\ pm.hMut.kind = "other" => pm.hMut.after = pm.hMut.before

\* C34: the action bar of a post never holds more than one capture-button
\* container, whatever callbacks, cleanups and set-ups have run.
C34_OneContainerPerBar ==
  \A e \in Posts : pm.bars[e] <= 1

\* a second callback for a post whose action bar holds a container, after a
\* cleanup() has emptied the tracked-post map and a set-up has followed
C34_Witness ==
  /\ aCleanups > 0
  /\ pm.hExisting
  /\ \E e \in Posts :
       /\ pm.bars[e] = 1
       /\ hasButton(pm, e)
       /\ pm.hCalls[e] > 0

\* C35: the click on an injected button finds the post container the button
\* was injected for.
C35_ButtonFindsItsPost ==
  ex.fn = "handleCapturePost" => ex.found = ex.post

\* C36: a confirmed record handed to the sink carries the message text that
\* was taken from the composer at the click.
C36_ConfirmedTextIsClickText ==
  mFired.valid =>
    \A i \in 1..Len(mFired.sink) :
      mFired.sink[i].kind = "confirmed" => mFired.sink[i].text = mFired.pre.text

\* C37: two pre-send snapshots taken in the same conversation with the same
\* text compute the same capture key.
C37_KeyOfConversationAndText ==
  ex.fn = "two" => ex.key2 = ex.key1

====
